---- MODULE Spec2Model ----
(***************************************************************************)
(* A model of the PTTTL/RTTTL parser (ptttl_parser.c) and of the sample    *)
(* generator (ptttl_sample_generator.c) of eriknyquist/ptttl, C version.   *)
(*                                                                         *)
(* Characters are strings of length one; NUL is the empty string.  The     *)
(* parser object and the input interface it reads through are one record   *)
(* `p` that every operator takes and returns, as the C functions take the  *)
(* ptttl_parser_t pointer.  A C function f(parser, &out) becomes an        *)
(* operator that returns [ret |-> return value, p |-> parser, ...].        *)
(***************************************************************************)
EXTENDS Integers, Sequences, FiniteSets, TLC

\* With([x \in {e} |-> b]) is b, with x standing for the value of e: the
\* local variable x of a C function, assigned once
With(f) == f[CHOOSE x \in DOMAIN f : TRUE]

NUL == ""

\* Compile-time configuration: the defaults of ptttl_parser.h
PTTTL_MAX_CHANNELS_PER_FILE == 16
PTTTL_MAX_NAME_LEN == 256

NOTE_OCTAVE_MAX == 8
NOTE_DURATION_COUNT == 6

\* note_pitch_e
NOTE_C == 0
NOTE_CS == 1
NOTE_DB == 1
NOTE_D == 2
NOTE_DS == 3
NOTE_EB == 3
NOTE_E == 4
NOTE_ES == 5
NOTE_F == 5
NOTE_FS == 6
NOTE_GB == 6
NOTE_G == 7
NOTE_GS == 8
NOTE_AB == 8
NOTE_A == 9
NOTE_AS == 10
NOTE_BB == 10
NOTE_B == 11
NOTE_INVALID == 12
NOTE_PITCH_COUNT == 12

\* Key number (0-based) of the first key (C) of each octave
_octave_starts == <<0, 3, 15, 27, 39, 51, 63, 75, 87>>

_valid_note_durations == <<1, 2, 4, 8, 16, 32>>

\* The error_message of a parser that no error was stored in: NULL
NoError == "NULL"

----------------------------------------------------------------------------
(* Characters *)

IS_WHITESPACE(c) == c \in {"\t", " ", "\n", "\r", "\f"}

Digits == {"0", "1", "2", "3", "4", "5", "6", "7", "8", "9"}

IS_DIGIT(c) == c \in Digits

\* (unsigned int) c - 48u for a digit character
DigitVal(c) ==
    CASE c = "0" -> 0 [] c = "1" -> 1 [] c = "2" -> 2 [] c = "3" -> 3
      [] c = "4" -> 4 [] c = "5" -> 5 [] c = "6" -> 6 [] c = "7" -> 7
      [] c = "8" -> 8 [] c = "9" -> 9

UpperNoteChars == {"A", "B", "C", "D", "E", "F", "G", "P"}
LowerNoteChars == {"a", "b", "c", "d", "e", "f", "g", "p", "#"}

\* nextchar + ' ' for the upper case letters the parser accepts
ToLower(c) ==
    CASE c = "A" -> "a" [] c = "B" -> "b" [] c = "C" -> "c" [] c = "D" -> "d"
      [] c = "E" -> "e" [] c = "F" -> "f" [] c = "G" -> "g" [] c = "P" -> "p"

----------------------------------------------------------------------------
(* The parser object and the active input stream *)

StreamParser == 0 - 1   \* active_stream = &parser->stream

ZeroStream == [position |-> 0, line |-> 0, column |-> 0, block |-> 0,
               have_saved_char |-> 0, saved_char |-> NUL]

ActiveStream(p) ==
    IF p.active_stream = StreamParser THEN p.stream ELSE p.channels[p.active_stream]

\* One cursor shared by all the channels
SetEveryChannel(p, s) ==
    IF p.active_stream = StreamParser
    THEN [p EXCEPT !.stream = s]
    ELSE [p EXCEPT !.channels = [k \in DOMAIN p.channels |-> s]]

SetActive(p, s) ==
    IF p.active_stream = StreamParser
    THEN [p EXCEPT !.stream = s]
    ELSE [p EXCEPT !.channels[p.active_stream] = s]

ERROR(p, msg) ==
    With([s \in {ActiveStream(p)} |->
    [p EXCEPT !.error = [error_message |-> msg, line |-> s.line,
                         column |-> IF s.column > 0 THEN s.column ELSE s.column + 1]]])

ADVANCE_LINE_COLUMN(p, c) ==
    With([s \in {ActiveStream(p)} |->
    IF c = "\n"
    THEN SetActive(p, [s EXCEPT !.line = @ + 1, !.column = 0])
    ELSE SetActive(p, [s EXCEPT !.column = @ + 1])])

----------------------------------------------------------------------------
(* The input interface: an in-memory buffer, as _read_mem and _seek_mem of  *)
(* the test program, with the -1 outcome of the callback contract at the    *)
(* offsets fail_read and fail_seek (NoFail: the callback never fails).      *)

NoFail == 0 - 1

iface_read(p, nextchar) ==
    IF p.fail_read = p.input_pos
    THEN [ret |-> 0 - 1, c |-> nextchar, p |-> [p EXCEPT !.iface_failed = TRUE]]
    ELSE IF p.input_pos >= Len(p.buf)
    THEN [ret |-> 1, c |-> nextchar, p |-> p]
    ELSE [ret |-> 0, c |-> p.buf[p.input_pos + 1],
          p |-> [p EXCEPT !.input_pos = @ + 1]]

\* A seek callback over a buffer that has no end: a position past the last
\* character is taken from the beginning again
iface_seek_around(p, position) ==
    IF p.fail_seek = position
    THEN [ret |-> 0 - 1, p |-> [p EXCEPT !.iface_failed = TRUE]]
    ELSE [ret |-> 0, p |-> [p EXCEPT !.input_pos = position % Len(p.buf)]]

iface_seek(p, position) ==
    IF p.fail_seek = position
    THEN [ret |-> 0 - 1, p |-> [p EXCEPT !.iface_failed = TRUE]]
    ELSE IF Len(p.buf) <= position
    THEN [ret |-> 1, p |-> p]
    ELSE [ret |-> 0, p |-> [p EXCEPT !.input_pos = position]]

----------------------------------------------------------------------------
(* Input cursor *)

_readchar_wrapper(p, nextchar) ==
    With([s \in {ActiveStream(p)} |->
    IF s.have_saved_char = 1
    THEN [ret |-> 0, c |-> s.saved_char,
          p |-> SetActive(p, [s EXCEPT !.have_saved_char = 0])]
    ELSE With([r \in {iface_read(p, nextchar)} |->
         [ret |-> r.ret, c |-> r.c,
          p |-> SetActive(r.p, [s EXCEPT !.position = @ + 1])]])])

_read_next_char(p, nextchar) ==
    With([r \in {_readchar_wrapper(p, nextchar)} |->
    [ret |-> r.ret, c |-> r.c, p |-> ADVANCE_LINE_COLUMN(r.p, r.c)]])

\* A peek that does not keep the character it has read
_peek_next_char_unsaved(p, nextchar) ==
    With([s \in {ActiveStream(p)} |->
    IF s.have_saved_char = 1
    THEN [ret |-> 0, c |-> s.saved_char, p |-> p]
    ELSE _readchar_wrapper(p, nextchar)])

_peek_next_char(p, nextchar) ==
    With([s \in {ActiveStream(p)} |->
    IF s.have_saved_char = 1
    THEN [ret |-> 0, c |-> s.saved_char, p |-> p]
    ELSE With([r \in {_readchar_wrapper(p, nextchar)} |->
         IF r.ret = 0
         THEN [ret |-> 0, c |-> r.c,
               p |-> SetActive(r.p, [ActiveStream(r.p) EXCEPT
                                        !.have_saved_char = 1, !.saved_char = r.c])]
         ELSE r])])

_seek_wrapper(p, position) ==
    With([r \in {iface_seek(p, position)} |->
    IF r.ret = 0
    THEN [ret |-> 0, p |-> SetActive(r.p, [ActiveStream(r.p) EXCEPT !.position = position])]
    ELSE r])

\* The while loop of _eat_all_nonvisible_chars
RECURSIVE _eat_loop(_, _, _)
_eat_loop(p, nextchar, in_comment) ==
    With([pk \in {_peek_next_char(p, nextchar)} |->
    IF pk.ret # 0
    THEN [ret |-> pk.ret, p |-> pk.p]
    ELSE IF in_comment = 1
    THEN With([rd \in {_read_next_char(pk.p, pk.c)} |->
         _eat_loop(rd.p, rd.c, IF rd.c = "\n" THEN 0 ELSE 1)])
    ELSE IF ~IS_WHITESPACE(pk.c)
    THEN IF pk.c = "#"
         THEN With([rd \in {_read_next_char(pk.p, pk.c)} |-> _eat_loop(rd.p, rd.c, 1)])
         ELSE [ret |-> 0, p |-> pk.p]
    ELSE With([rd \in {_read_next_char(pk.p, pk.c)} |-> _eat_loop(rd.p, rd.c, 0)])])

_eat_all_nonvisible_chars(p) == _eat_loop(p, NUL, 0)

_get_next_visible_char(p, output) ==
    With([r \in {_eat_all_nonvisible_chars(p)} |->
    IF r.ret # 0
    THEN [ret |-> r.ret, c |-> output, p |-> r.p]
    ELSE _read_next_char(r.p, output)])

----------------------------------------------------------------------------
(* Interface return value checks *)

\* CHECK_IFACE_RET: EOF is an error.  returns = TRUE when the macro returns
\* from the enclosing function, with ret the value it returns.
CHECK_IFACE_RET(p, retval) ==
    IF retval = 1
    THEN [returns |-> TRUE, ret |-> 0 - 1, p |-> ERROR(p, "Unexpected EOF encountered")]
    ELSE IF retval < 0
    THEN [returns |-> TRUE, ret |-> 0 - 1, p |-> ERROR(p, "interface callback returned -1")]
    ELSE [returns |-> FALSE, ret |-> 0, p |-> p]

\* CHECK_IFACE_RET_EOF: EOF is passed on as 1
CHECK_IFACE_RET_EOF(p, retval) ==
    IF retval = 1
    THEN [returns |-> TRUE, ret |-> 1, p |-> p]
    ELSE IF retval < 0
    THEN [returns |-> TRUE, ret |-> 0 - 1, p |-> ERROR(p, "interface callback returned -1")]
    ELSE [returns |-> FALSE, ret |-> 0, p |-> p]

----------------------------------------------------------------------------
(* Unsigned integers *)

UIntBufSize == 32

\* Digits of UINT_MAX (4294967295) and of its octal form (037777777777)
UINT_MAX_digits == <<4, 2, 9, 4, 9, 6, 7, 2, 9, 5>>

RECURSIVE StripZeros(_)
StripZeros(ds) ==
    IF Len(ds) > 0 /\ ds[1] = "0" THEN StripZeros(Tail(ds)) ELSE ds

RECURSIVE DigitsGreater(_, _)
\* ds > ms for two digit strings of the same length (ms as numbers)
DigitsGreater(ds, ms) ==
    IF Len(ds) = 0 THEN FALSE
    ELSE IF DigitVal(ds[1]) # ms[1] THEN DigitVal(ds[1]) > ms[1]
    ELSE DigitsGreater(Tail(ds), Tail(ms))

\* strtoul(buf, &endptr, 0): a leading 0 selects base 8
StrBase(ds) == IF Len(ds) > 1 /\ ds[1] = "0" THEN 8 ELSE 10

\* *endptr != '\0': some character is not a digit of the base
StrInvalid(ds) == \E i \in 1..Len(ds) : DigitVal(ds[i]) >= StrBase(ds)

\* the value does not fit an unsigned int (strtoul saturates at ULONG_MAX)
StrTooLarge(ds) ==
    With([sig \in {StripZeros(ds)} |->
    IF StrBase(ds) = 8
    THEN Len(sig) > 11 \/ (Len(sig) = 11 /\ DigitVal(sig[1]) > 3)
    ELSE Len(sig) > 10 \/ (Len(sig) = 10 /\ DigitsGreater(sig, UINT_MAX_digits))])

RECURSIVE StrValue(_, _, _)
StrValue(ds, base, acc) ==
    IF Len(ds) = 0 THEN acc
    ELSE StrValue(Tail(ds), base, acc * base + DigitVal(ds[1]))

\* One pass of the while loop of _parse_uint_from_input: its condition and
\* its body
_parse_uint_pass(st) ==
    With([pk \in {_peek_next_char(st.p, st.c)} |->
    IF pk.ret # 0
    THEN [done |-> TRUE, readchar_ret |-> pk.ret, toolong |-> FALSE, p |-> pk.p,
          c |-> pk.c, digits |-> st.digits]
    ELSE IF IS_DIGIT(pk.c)
    THEN With([rd \in {_read_next_char(pk.p, pk.c)} |->
         IF Len(st.digits) = UIntBufSize - 1
         THEN [done |-> TRUE, readchar_ret |-> 0, toolong |-> TRUE,
               p |-> ERROR(rd.p, "Integer is too long"), c |-> rd.c,
               digits |-> st.digits]
         ELSE [done |-> FALSE, readchar_ret |-> 0, toolong |-> FALSE, p |-> rd.p,
               c |-> rd.c, digits |-> Append(st.digits, rd.c)]])
    ELSE [done |-> TRUE, readchar_ret |-> 0, toolong |-> FALSE, p |-> pk.p,
          c |-> pk.c, digits |-> st.digits]])

\* Up to n passes of the while loop, as two halves
RECURSIVE _parse_uint_passes(_, _)
_parse_uint_passes(st, n) ==
    IF st.done THEN st
    ELSE IF n = 1 THEN _parse_uint_pass(st)
    ELSE _parse_uint_passes(_parse_uint_passes(st, n \div 2), n - (n \div 2))

\* The while loop of _parse_uint_from_input; every pass but the last puts one
\* digit into the buffer, so that it ends within UIntBufSize passes
_parse_uint_loop(p, nextchar, digits) ==
    _parse_uint_passes([done |-> FALSE, readchar_ret |-> 0, toolong |-> FALSE,
                        p |-> p, c |-> nextchar, digits |-> digits], UIntBufSize)

\* val is the value stored through output; it is meaningful only when ret = 0
_parse_uint_from_input(p, eof_allowed) ==
    With([l \in {_parse_uint_loop(p, NUL, <<>>)} |->
    IF l.toolong THEN [ret |-> 0 - 1, p |-> l.p, val |-> 0]
    ELSE
    With([chk \in {IF eof_allowed = 1 THEN CHECK_IFACE_RET_EOF(l.p, l.readchar_ret)
               ELSE CHECK_IFACE_RET(l.p, l.readchar_ret)} |->
    IF chk.returns THEN [ret |-> chk.ret, p |-> chk.p, val |-> 0]
    ELSE IF Len(l.digits) = 0
    THEN With([rd \in {_read_next_char(l.p, l.c)} |->
         [ret |-> 0 - 1, p |-> ERROR(rd.p, "Expected a numerical digit"), val |-> 0]])
    ELSE IF StrInvalid(l.digits)
    THEN [ret |-> 0 - 1, p |-> ERROR(l.p, "Invalid integer (too large?)"), val |-> 0]
    ELSE IF StrTooLarge(l.digits)
    THEN [ret |-> 0 - 1, p |-> ERROR(l.p, "Integer is too large"), val |-> 0]
    ELSE [ret |-> 0, p |-> l.p, val |-> StrValue(l.digits, StrBase(l.digits), 0)]])])

\* A check of the note duration that lets every value through
_any_note_duration(duration) == 1

_valid_note_duration(duration) ==
    IF \E i \in 1..NOTE_DURATION_COUNT : _valid_note_durations[i] = duration
    THEN 1 ELSE 0

----------------------------------------------------------------------------
(* Settings section *)

\* if (parser->active_stream->column > 1) parser->active_stream->column -= 1;
ColumnBack(p) ==
    With([s \in {ActiveStream(p)} |->
    IF s.column > 1 THEN SetActive(p, [s EXCEPT !.column = @ - 1]) ELSE p])

_parse_option(opt, p, option_expected) ==
    IF opt = ":"
    THEN IF option_expected = 1
         THEN [ret |-> 0 - 1, p |-> ERROR(p, "Expected another option setting")]
         ELSE [ret |-> 0, p |-> p]
    ELSE
    With([g \in {_get_next_visible_char(p, NUL)} |->
    With([chk \in {CHECK_IFACE_RET(g.p, g.ret)} |->
    IF chk.returns THEN [ret |-> chk.ret, p |-> chk.p]
    ELSE IF g.c # "="
    THEN [ret |-> 0 - 1, p |-> ERROR(ColumnBack(g.p), "Invalid option setting")]
    ELSE
    With([u \in {_parse_uint_from_input(g.p, 0)} |->
    CASE opt = "b" ->
           With([q \in {IF u.ret = 0 THEN [u.p EXCEPT !.bpm = u.val] ELSE u.p} |->
           IF u.ret = 0 /\ q.bpm = 0
           THEN [ret |-> 0 - 1, p |-> ERROR(q, "BPM cannot be zero")]
           ELSE [ret |-> u.ret, p |-> q]])
      [] opt = "d" ->
           With([q \in {IF u.ret = 0 THEN [u.p EXCEPT !.default_duration = u.val] ELSE u.p} |->
           IF u.ret = 0 /\ _valid_note_duration(q.default_duration) = 0
           THEN [ret |-> 0 - 1, p |-> ERROR(q, "Invalid note duration (must be 1, 2, 4, 8, 16 or 32)")]
           ELSE [ret |-> u.ret, p |-> q]])
      [] opt = "o" ->
           With([q \in {IF u.ret = 0 THEN [u.p EXCEPT !.default_octave = u.val] ELSE u.p} |->
           IF u.ret = 0 /\ NOTE_OCTAVE_MAX < q.default_octave
           THEN [ret |-> 0 - 1, p |-> ERROR(q, "Invalid octave (must be 0 through 8)")]
           ELSE [ret |-> u.ret, p |-> q]])
      [] opt = "f" ->
           With([q \in {IF u.ret = 0 THEN [u.p EXCEPT !.default_vibrato_freq = u.val] ELSE u.p} |->
           IF q.default_vibrato_freq > 65535
           THEN [ret |-> 0 - 1, p |-> ERROR(q, "Vibrato frequency too high (maximum is 65,535)")]
           ELSE [ret |-> u.ret, p |-> q]])
      [] opt = "v" ->
           With([q \in {IF u.ret = 0 THEN [u.p EXCEPT !.default_vibrato_var = u.val] ELSE u.p} |->
           IF q.default_vibrato_var > 65535
           THEN [ret |-> 0 - 1, p |-> ERROR(q, "Vibrato variance too high (maximum is 65,535)")]
           ELSE [ret |-> u.ret, p |-> q]])
      [] OTHER ->
           [ret |-> 0 - 1, p |-> ERROR(ColumnBack(g.p), "Unrecognized option key")]])])])

\* The while loop of _parse_settings; c is the last character read
RECURSIVE _parse_settings_loop(_, _, _)
_parse_settings_loop(p, c, expecting_another_option) ==
    IF c = ":" THEN [ret |-> 0, p |-> p]
    ELSE
    With([g \in {_get_next_visible_char(p, c)} |->
    With([chk \in {CHECK_IFACE_RET(g.p, g.ret)} |->
    IF chk.returns THEN [ret |-> chk.ret, p |-> chk.p]
    ELSE
    With([o \in {_parse_option(g.c, g.p, expecting_another_option)} |->
    IF o.ret # 0 THEN o
    ELSE IF g.c = ":" THEN [ret |-> 0, p |-> o.p]
    ELSE
    With([g2 \in {_get_next_visible_char(o.p, g.c)} |->
    With([chk2 \in {CHECK_IFACE_RET(g2.p, g2.ret)} |->
    IF chk2.returns THEN [ret |-> chk2.ret, p |-> chk2.p]
    ELSE IF g2.c = "," THEN _parse_settings_loop(g2.p, g2.c, 1)
    ELSE IF g2.c # ":"
    THEN [ret |-> 0 - 1, p |-> ERROR(g2.p, "Malformed settings section (did you forget a comma?)")]
    ELSE _parse_settings_loop(g2.p, g2.c, 0)])])])])])

\* Settings that begin with octave 5
_parse_settings_octave5(p) ==
    _parse_settings_loop([p EXCEPT !.bpm = 123, !.default_duration = 8,
                                   !.default_octave = 5,
                                   !.default_vibrato_freq = 7,
                                   !.default_vibrato_var = 10], NUL, 0)

_parse_settings(p) ==
    _parse_settings_loop([p EXCEPT !.bpm = 123, !.default_duration = 8,
                                   !.default_octave = 4,
                                   !.default_vibrato_freq = 7,
                                   !.default_vibrato_var = 10], NUL, 0)

----------------------------------------------------------------------------
(* IEEE-754 binary32 arithmetic (C float), round to nearest even.           *)
(* A float is [s |-> sign, m |-> mantissa, e |-> exponent] and stands for   *)
(* (-1)^s * m * 2^e with m = 0 or 2^23 <= m < 2^24.  Subnormals, infinities *)
(* and NaN are outside the values the model computes with.  Every           *)
(* intermediate integer stays below 2^31.                                   *)

RECURSIVE BitLen(_)
BitLen(n) == IF n = 0 THEN 0 ELSE 1 + BitLen(n \div 2)

F32Zero == [s |-> 0, m |-> 0, e |-> 0]

\* The float nearest to M * 2^e (ties to even), M < 2^31
F32Round(s, M, e) ==
    IF M = 0 THEN F32Zero
    ELSE
    With([L \in {BitLen(M)} |->
    IF L <= 24 THEN [s |-> s, m |-> M * 2^(24 - L), e |-> e - (24 - L)]
    ELSE
    With([sh \in {L - 24} |->
    With([q \in {M \div 2^sh} |->
    With([r \in {M % 2^sh} |->
    With([half \in {2^(sh - 1)} |->
    With([q2 \in {IF r > half \/ (r = half /\ q % 2 = 1) THEN q + 1 ELSE q} |->
    IF q2 = 2^24 THEN [s |-> s, m |-> 2^23, e |-> e + sh + 1]
       ELSE [s |-> s, m |-> q2, e |-> e + sh]])])])])])])

\* (float) n for an integer n
F32FromInt(n) == IF n < 0 THEN F32Round(1, 0 - n, 0) ELSE F32Round(0, n, 0)

F32Neg(a) == IF a.m = 0 THEN a ELSE [a EXCEPT !.s = 1 - a.s]

F32Abs(a) == [a EXCEPT !.s = 0]

\* |a| < |b|
F32MagLess(a, b) ==
    IF b.m = 0 THEN FALSE
    ELSE IF a.m = 0 THEN TRUE
    ELSE a.e < b.e \/ (a.e = b.e /\ a.m < b.m)

\* a < b
F32Less(a, b) ==
    IF a.m = 0 /\ b.m = 0 THEN FALSE
    ELSE IF a.m = 0 THEN b.s = 0
    ELSE IF b.m = 0 THEN a.s = 1
    ELSE IF a.s # b.s THEN a.s = 1
    ELSE IF a.s = 0 THEN F32MagLess(a, b) ELSE F32MagLess(b, a)

\* a >= b
F32GreaterEq(a, b) == ~F32Less(a, b)

F32Mul(a, b) ==
    IF a.m = 0 \/ b.m = 0 THEN F32Zero
    ELSE
    With([a1 \in {a.m \div 4096} |->
    With([a0 \in {a.m % 4096} |->
    With([b1 \in {b.m \div 4096} |->
    With([b0 \in {b.m % 4096} |->
    With([cross \in {a1 * b0 + a0 * b1} |->
    With([lo \in {a0 * b0 + (cross % 4096) * 4096} |->
    With([lo24 \in {lo % 16777216} |->
    With([hi \in {a1 * b1 + cross \div 4096 + lo \div 16777216} |->
        \* the product is hi * 2^24 + lo24; keep 6 more bits and a sticky bit
    With([M \in {(hi * 64 + lo24 \div 262144) * 2 + (IF lo24 % 262144 # 0 THEN 1 ELSE 0)} |->
    F32Round((a.s + b.s) % 2, M, a.e + b.e + 17)])])])])])])])])])

\* 26 steps of long division: quotient bits of r / d, r < d
RECURSIVE F32DivBits(_, _, _, _)
F32DivBits(r, d, q, n) ==
    IF n = 0 THEN [q |-> q, r |-> r]
    ELSE IF 2 * r >= d THEN F32DivBits(2 * r - d, d, 2 * q + 1, n - 1)
    ELSE F32DivBits(2 * r, d, 2 * q, n - 1)

F32Div(a, b) ==
    IF a.m = 0 THEN F32Zero
    ELSE
    With([dv \in {F32DivBits(a.m % b.m, b.m, a.m \div b.m, 26)} |->
    With([M \in {dv.q * 2 + (IF dv.r # 0 THEN 1 ELSE 0)} |->
    F32Round((a.s + b.s) % 2, M, a.e - b.e - 27)])])

F32Add(a, b) ==
    IF a.m = 0 THEN b
    ELSE IF b.m = 0 THEN a
    ELSE
    With([x \in {IF F32MagLess(a, b) THEN b ELSE a} |->
    With([y \in {IF F32MagLess(a, b) THEN a ELSE b} |->
    With([d \in {x.e - y.e} |->
    With([X \in {x.m * 8} |->
    With([Y0 \in {IF d > 27 THEN 0 ELSE (y.m * 8) \div 2^d} |->
    With([jam \in {IF d > 27 THEN TRUE ELSE (y.m * 8) % 2^d # 0} |->
    With([Y \in {IF jam /\ Y0 % 2 = 0 THEN Y0 + 1 ELSE Y0} |->
    With([M \in {IF x.s = y.s THEN X + Y ELSE X - Y} |->
    F32Round(x.s, M, x.e - 3)])])])])])])])])

F32Sub(a, b) == F32Add(a, F32Neg(b))

\* (int) a and (unsigned int) a: truncation toward zero
F32ToInt(a) ==
    IF a.m = 0 THEN 0
    ELSE
    With([mag \in {IF a.e >= 0 THEN a.m * 2^a.e
               ELSE IF 0 - a.e >= 24 THEN 0
               ELSE a.m \div 2^(0 - a.e)} |->
    IF a.s = 1 THEN 0 - mag ELSE mag])

----------------------------------------------------------------------------
(* Notes *)

\* ptttl_output_note_t.  note_settings is the packed 23-bit word;
\* vibrato_settings is the 32-bit word as its two 16-bit halves.
ZeroNote == [note_settings |-> 0, vibrato_settings |-> [lo |-> 0, hi |-> 0]]

SET_VIBRATO(note, freq, var) ==
    [note EXCEPT !.vibrato_settings = [lo |-> freq % 65536, hi |-> var % 65536]]

SET_NOTE(note, value, duration) ==
    [note EXCEPT !.note_settings = (value % 128) + (duration % 65536) * 128]

PTTTL_NOTE_VIBRATO_FREQ(note) == note.vibrato_settings.lo
PTTTL_NOTE_VIBRATO_VAR(note) == note.vibrato_settings.hi
PTTTL_NOTE_VALUE(note) == note.note_settings % 128
PTTTL_NOTE_DURATION(note) == (note.note_settings \div 128) % 65536

\* A conversion that takes every pitch in octave 0
_note_name_to_number_any(p, note, octave) ==
    IF octave = 0
    THEN [ret |-> 0, p |-> p, output |-> ((note + NOTE_PITCH_COUNT - NOTE_A) % NOTE_PITCH_COUNT) + 1]
    ELSE [ret |-> 0, p |-> p, output |-> (_octave_starts[octave + 1] + note) + 1]

_note_name_to_number(p, note, octave) ==
    IF octave = 0
    THEN IF note < NOTE_A
         THEN [ret |-> 0 - 1, p |-> ERROR(p, "Invalid musical note for octave 0"), output |-> 0]
         ELSE [ret |-> 0, p |-> p, output |-> (note - NOTE_A) + 1]
    ELSE [ret |-> 0, p |-> p, output |-> (_octave_starts[octave + 1] + note) + 1]

NoMatch == 0 - 1

CHECK_SHARPONLY(string, size, notechar, val, sharpval) ==
    IF notechar = string[1]
    THEN IF size > 1
         THEN IF string[2] = "#" THEN sharpval ELSE NOTE_INVALID
         ELSE val
    ELSE NoMatch

CHECK_FLATONLY(string, size, notechar, val, flatval) ==
    IF notechar = string[1]
    THEN IF size > 1
         THEN IF string[2] = "b" THEN flatval ELSE NOTE_INVALID
         ELSE val
    ELSE NoMatch

CHECK_SHARPFLAT(string, size, notechar, val, sharpval, flatval) ==
    IF notechar = string[1]
    THEN IF size > 1
         THEN IF string[2] = "#" THEN sharpval
              ELSE IF string[2] = "b" THEN flatval
              ELSE NOTE_INVALID
         ELSE val
    ELSE NoMatch

_note_string_to_enum(string, size) ==
    IF size > 2 \/ size < 1 THEN NOTE_INVALID
    ELSE
    With([c \in {CHECK_SHARPONLY(string, size, "c", NOTE_C, NOTE_CS)} |->
    With([d \in {CHECK_SHARPFLAT(string, size, "d", NOTE_D, NOTE_DS, NOTE_DB)} |->
    With([e \in {CHECK_SHARPFLAT(string, size, "e", NOTE_E, NOTE_ES, NOTE_EB)} |->
    With([f \in {CHECK_SHARPONLY(string, size, "f", NOTE_F, NOTE_FS)} |->
    With([g \in {CHECK_SHARPFLAT(string, size, "g", NOTE_G, NOTE_GS, NOTE_GB)} |->
    With([a \in {CHECK_SHARPFLAT(string, size, "a", NOTE_A, NOTE_AS, NOTE_AB)} |->
    With([b \in {CHECK_FLATONLY(string, size, "b", NOTE_B, NOTE_BB)} |->
    IF c # NoMatch THEN c
       ELSE IF d # NoMatch THEN d
       ELSE IF e # NoMatch THEN e
       ELSE IF f # NoMatch THEN f
       ELSE IF g # NoMatch THEN g
       ELSE IF a # NoMatch THEN a
       ELSE IF b # NoMatch THEN b
       ELSE NOTE_INVALID])])])])])])])

\* The while loop of _parse_musical_note
RECURSIVE _parse_musical_note_loop(_, _, _)
_parse_musical_note_loop(p, nextchar, notebuf) ==
    IF Len(notebuf) >= 2
    THEN [readchar_ret |-> 0, p |-> p, c |-> nextchar, notebuf |-> notebuf]
    ELSE
    With([pk \in {_peek_next_char(p, nextchar)} |->
    IF pk.ret # 0
    THEN [readchar_ret |-> pk.ret, p |-> pk.p, c |-> pk.c, notebuf |-> notebuf]
    ELSE IF pk.c \in UpperNoteChars
    THEN With([rd \in {_read_next_char(pk.p, pk.c)} |->
         _parse_musical_note_loop(rd.p, rd.c, Append(notebuf, ToLower(rd.c)))])
    ELSE IF pk.c \in LowerNoteChars
    THEN With([rd \in {_read_next_char(pk.p, pk.c)} |->
         _parse_musical_note_loop(rd.p, rd.c, Append(notebuf, rd.c))])
    ELSE [readchar_ret |-> 0, p |-> pk.p, c |-> pk.c, notebuf |-> notebuf]])

\* note_pitch is meaningful only when ret = 0
_parse_musical_note(p) ==
    With([l \in {_parse_musical_note_loop(p, NUL, <<>>)} |->
    With([chk \in {CHECK_IFACE_RET_EOF(l.p, l.readchar_ret)} |->
    IF chk.returns THEN [ret |-> chk.ret, p |-> chk.p, note_pitch |-> NOTE_C]
    ELSE IF Len(l.notebuf) = 0
    THEN With([rd \in {_read_next_char(l.p, l.c)} |->
         [ret |-> 0 - 1, p |-> ERROR(rd.p, "Expecting a musical note name"), note_pitch |-> NOTE_C]])
    ELSE IF Len(l.notebuf) = 1 /\ l.notebuf[1] = "p"
    THEN [ret |-> 0, p |-> l.p, note_pitch |-> NOTE_INVALID]
    ELSE
    With([enum_val \in {_note_string_to_enum(l.notebuf, Len(l.notebuf))} |->
    IF enum_val = NOTE_INVALID
    THEN [ret |-> 0 - 1, p |-> ERROR(l.p, "Invalid musical note name"), note_pitch |-> NOTE_C]
    ELSE [ret |-> 0, p |-> l.p, note_pitch |-> enum_val]])])])

_parse_note_vibrato(p, output) ==
    With([pk \in {_peek_next_char(p, NUL)} |->
    With([chk \in {CHECK_IFACE_RET_EOF(pk.p, pk.ret)} |->
    IF chk.returns THEN [ret |-> chk.ret, p |-> chk.p, output |-> output]
    ELSE IF pk.c # "v"
    THEN [ret |-> 0, p |-> pk.p, output |-> SET_VIBRATO(output, 0, 0)]
    ELSE
    With([rd \in {_read_next_char(pk.p, pk.c)} |->
    With([out1 \in {SET_VIBRATO(output, rd.p.default_vibrato_freq, rd.p.default_vibrato_var)} |->
    With([pk2 \in {_peek_next_char(rd.p, rd.c)} |->
    With([chk2 \in {CHECK_IFACE_RET_EOF(pk2.p, pk2.ret)} |->
    IF chk2.returns THEN [ret |-> chk2.ret, p |-> chk2.p, output |-> out1]
    ELSE IF ~IS_DIGIT(pk2.c) THEN [ret |-> 0, p |-> pk2.p, output |-> out1]
    ELSE
    With([f \in {_parse_uint_from_input(pk2.p, 1)} |->
    IF f.ret # 0 THEN [ret |-> f.ret, p |-> f.p, output |-> out1]
    ELSE IF f.val > 65535
    THEN [ret |-> 0 - 1,
          p |-> ERROR(f.p, "Vibrato frequency too high (maximum is 65,535)"), output |-> out1]
    ELSE
    With([pk3 \in {_peek_next_char(f.p, pk2.c)} |->
    With([chk3 \in {CHECK_IFACE_RET_EOF(pk3.p, pk3.ret)} |->
    IF chk3.returns THEN [ret |-> chk3.ret, p |-> chk3.p, output |-> out1]
    ELSE IF pk3.c = "-"
    THEN With([rd3 \in {_read_next_char(pk3.p, pk3.c)} |->
         With([v \in {_parse_uint_from_input(rd3.p, 1)} |->
         IF v.ret # 0 THEN [ret |-> v.ret, p |-> v.p, output |-> out1]
         ELSE IF v.val > 65535
         THEN [ret |-> 0 - 1,
               p |-> ERROR(v.p, "Vibrato variance too high (maximum is 65,535)"), output |-> out1]
         ELSE [ret |-> 0, p |-> v.p, output |-> SET_VIBRATO(out1, f.val, v.val)]])])
    ELSE [ret |-> 0, p |-> pk3.p, output |-> SET_VIBRATO(out1, f.val, 0)]])])])])])])])])])

\* A note time that is cut to whole seconds before it becomes milliseconds
DurationMsWholeSeconds(bpm, duration, dot_seen) ==
    With([whole_time \in {F32Mul(F32Div(F32FromInt(60), F32FromInt(bpm)), F32FromInt(4))} |->
    With([duration_secs \in {F32Div(whole_time, F32FromInt(duration))} |->
    With([dotted \in {IF dot_seen = 1
                  THEN F32Add(duration_secs, F32Div(duration_secs, F32FromInt(2)))
                  ELSE duration_secs} |->
    F32ToInt(dotted) * 1000])])])

\* A note time that ignores the dot
DurationMsUndotted(bpm, duration, dot_seen) ==
    With([whole_time \in {F32Mul(F32Div(F32FromInt(60), F32FromInt(bpm)), F32FromInt(4))} |->
    With([duration_secs \in {F32Div(whole_time, F32FromInt(duration))} |->
    F32ToInt(F32Mul(duration_secs, F32FromInt(1000)))])])

\* The note time in milliseconds of _parse_ptttl_note, before it is packed
DurationMs(bpm, duration, dot_seen) ==
    With([whole_time \in {F32Mul(F32Div(F32FromInt(60), F32FromInt(bpm)), F32FromInt(4))} |->
    With([duration_secs \in {F32Div(whole_time, F32FromInt(duration))} |->
    With([dotted \in {IF dot_seen = 1
                  THEN F32Add(duration_secs, F32Div(duration_secs, F32FromInt(2)))
                  ELSE duration_secs} |->
    F32ToInt(F32Mul(dotted, F32FromInt(1000)))])])])

_parse_ptttl_note(p, output) ==
    With([pk \in {_peek_next_char(p, NUL)} |->
    With([chk \in {CHECK_IFACE_RET_EOF(pk.p, pk.ret)} |->
    IF chk.returns THEN [ret |-> chk.ret, p |-> chk.p, output |-> output]
    ELSE
    \* Read note duration, if it exists
    With([du \in {IF IS_DIGIT(pk.c) THEN _parse_uint_from_input(pk.p, 0)
              ELSE [ret |-> 0, p |-> pk.p, val |-> pk.p.default_duration]} |->
    IF du.ret # 0 THEN [ret |-> du.ret, p |-> du.p, output |-> output]
    ELSE IF _valid_note_duration(du.val) = 0
    THEN [ret |-> 0 - 1,
          p |-> ERROR(du.p, "Invalid note duration (must be 1, 2, 4, 8, 16 or 32)"), output |-> output]
    ELSE
    With([mn \in {_parse_musical_note(du.p)} |->
    IF mn.ret # 0 THEN [ret |-> mn.ret, p |-> mn.p, output |-> output]
    ELSE
    \* Check for dot after note letter
    With([pk1 \in {_peek_next_char(mn.p, pk.c)} |->
    With([chk1 \in {CHECK_IFACE_RET_EOF(pk1.p, pk1.ret)} |->
    IF chk1.returns THEN [ret |-> chk1.ret, p |-> chk1.p, output |-> output]
    ELSE
    With([d1 \in {IF pk1.c = "." THEN _read_next_char(pk1.p, pk1.c)
              ELSE [ret |-> 0, c |-> pk1.c, p |-> pk1.p]} |->
    With([dot1 \in {IF pk1.c = "." THEN 1 ELSE 0} |->
        \* Read octave, if it exists
    With([pk2 \in {_peek_next_char(d1.p, d1.c)} |->
    With([chk2 \in {CHECK_IFACE_RET_EOF(pk2.p, pk2.ret)} |->
    IF chk2.returns THEN [ret |-> chk2.ret, p |-> chk2.p, output |-> output]
    ELSE
    With([oc \in {IF IS_DIGIT(pk2.c) THEN _read_next_char(pk2.p, pk2.c)
              ELSE [ret |-> 0, c |-> pk2.c, p |-> pk2.p]} |->
    With([octave \in {IF IS_DIGIT(pk2.c) THEN DigitVal(oc.c) ELSE oc.p.default_octave} |->
    IF NOTE_OCTAVE_MAX < octave /\ IS_DIGIT(pk2.c)
    THEN [ret |-> 0 - 1, p |-> ERROR(oc.p, "Invalid octave (must be 0 through 8)"), output |-> output]
    ELSE
    \* Check for dot again after octave
    With([pk3 \in {_peek_next_char(oc.p, oc.c)} |->
    With([chk3 \in {CHECK_IFACE_RET_EOF(pk3.p, pk3.ret)} |->
    IF chk3.returns THEN [ret |-> chk3.ret, p |-> chk3.p, output |-> output]
    ELSE
    With([d3 \in {IF pk3.c = "." THEN _read_next_char(pk3.p, pk3.c)
              ELSE [ret |-> 0, c |-> pk3.c, p |-> pk3.p]} |->
    With([dot_seen \in {IF pk3.c = "." THEN 1 ELSE dot1} |->
    With([nn \in {IF mn.note_pitch # NOTE_INVALID
              THEN _note_name_to_number(d3.p, mn.note_pitch, octave)
              ELSE [ret |-> 0, p |-> d3.p, output |-> 0]} |->
    IF nn.ret # 0 THEN [ret |-> nn.ret, p |-> nn.p, output |-> output]
    ELSE _parse_note_vibrato(nn.p,
             SET_NOTE(output, nn.output, DurationMs(nn.p.bpm, du.val, dot_seen)))])])])])])])])])])])])])])])])])])

----------------------------------------------------------------------------
(* ptttl_parse_init *)

\* The parser object before ptttl_parse_init, reading buf through an
\* interface whose callbacks fail at the offsets fr (read) and fs (seek).
\* iface_failed records that a callback has returned a negative value since
\* the caller last cleared it (Called).
NewParser(buf, fr, fs) ==
    [buf |-> buf, input_pos |-> 0, fail_read |-> fr, fail_seek |-> fs,
     iface_failed |-> FALSE,
     name |-> <<>>, name_terminated |-> FALSE,
     bpm |-> 0, default_duration |-> 0, default_octave |-> 0,
     default_vibrato_freq |-> 0, default_vibrato_var |-> 0,
     error |-> [error_message |-> NoError, line |-> 0, column |-> 0],
     channel_count |-> 0, active_stream |-> StreamParser,
     stream |-> ZeroStream,
     channels |-> [k \in 0..(PTTTL_MAX_CHANNELS_PER_FILE - 1) |-> ZeroStream]]

\* One pass of the name loop that lets one character too many into the name
_read_name_pass_one_more(st) ==
    With([rd \in {_read_next_char(st.p, st.c)} |->
    IF rd.ret # 0
    THEN [done |-> TRUE, readchar_ret |-> rd.ret, toolong |-> FALSE, p |-> rd.p, c |-> rd.c]
    ELSE IF rd.c = ":"
    THEN [done |-> TRUE, readchar_ret |-> 0, toolong |-> FALSE,
          p |-> [rd.p EXCEPT !.name_terminated = TRUE], c |-> rd.c]
    ELSE IF PTTTL_MAX_NAME_LEN = Len(rd.p.name)
    THEN [done |-> TRUE, readchar_ret |-> 0, toolong |-> TRUE,
          p |-> ERROR(rd.p, "Maximum song name length exceeded"), c |-> rd.c]
    ELSE [done |-> FALSE, readchar_ret |-> 0, toolong |-> FALSE,
          p |-> [rd.p EXCEPT !.name = Append(@, rd.c)], c |-> rd.c]])

\* One pass of the while loop that reads the name: the condition and the body
_read_name_pass(st) ==
    With([rd \in {_read_next_char(st.p, st.c)} |->
    IF rd.ret # 0
    THEN [done |-> TRUE, readchar_ret |-> rd.ret, toolong |-> FALSE, p |-> rd.p, c |-> rd.c]
    ELSE IF rd.c = ":"
    THEN [done |-> TRUE, readchar_ret |-> 0, toolong |-> FALSE,
          p |-> [rd.p EXCEPT !.name_terminated = TRUE], c |-> rd.c]
    ELSE IF PTTTL_MAX_NAME_LEN - 1 = Len(rd.p.name)
    THEN [done |-> TRUE, readchar_ret |-> 0, toolong |-> TRUE,
          p |-> ERROR(rd.p, "Maximum song name length exceeded"), c |-> rd.c]
    ELSE [done |-> FALSE, readchar_ret |-> 0, toolong |-> FALSE,
          p |-> [rd.p EXCEPT !.name = Append(@, rd.c)], c |-> rd.c]])

\* Up to n passes of the name loop, as two halves
RECURSIVE _read_name_passes(_, _)
_read_name_passes(st, n) ==
    IF st.done THEN st
    ELSE IF n = 1 THEN _read_name_pass(st)
    ELSE _read_name_passes(_read_name_passes(st, n \div 2), n - (n \div 2))

\* The while loop that reads the name; every pass but the last puts one
\* character into the name, so that it ends within PTTTL_MAX_NAME_LEN + 1
\* passes
_read_name_loop(p, namechar) ==
    _read_name_passes([done |-> FALSE, readchar_ret |-> 0, toolong |-> FALSE,
                       p |-> p, c |-> namechar], PTTTL_MAX_NAME_LEN + 1)

\* The inner while loop of channel discovery: read up to the next '|' or ';'
RECURSIVE _find_channel_end(_, _)
_find_channel_end(p, nextchar) ==
    With([g \in {_get_next_visible_char(p, nextchar)} |->
    IF g.ret # 0 THEN [ret |-> g.ret, p |-> g.p, c |-> g.c]
    ELSE IF g.c = "|" \/ g.c = ";" THEN [ret |-> 0, p |-> g.p, c |-> g.c]
    ELSE _find_channel_end(g.p, g.c)])

\* One pass of a channel loop that never refuses a further channel
_find_channels_pass_unlimited(st) ==
    With([e \in {_eat_all_nonvisible_chars(st.p)} |->
    IF e.ret # 0 THEN [done |-> TRUE, ret |-> 0, p |-> e.p]
    ELSE
    With([s \in {ActiveStream(e.p)} |->
    With([chan \in {[position |-> s.position, line |-> s.line, column |-> s.column,
                 have_saved_char |-> s.have_saved_char,
                 saved_char |-> s.saved_char, block |-> 0]} |->
    With([q \in {[e.p EXCEPT !.channels[e.p.channel_count] = chan,
                         !.channel_count = @ + 1]} |->
    With([f \in {_find_channel_end(q, NUL)} |->
    IF f.ret # 0 THEN [done |-> TRUE, ret |-> 0, p |-> f.p]
    ELSE IF f.c = "|"
    THEN [done |-> FALSE, ret |-> 0, p |-> f.p]
    ELSE [done |-> TRUE, ret |-> 0, p |-> f.p]])])])])])

\* One pass of the outer while loop of channel discovery, after its condition;
\* ret is the value that ptttl_parse_init returns once the loop is done
_find_channels_pass(st) ==
    With([e \in {_eat_all_nonvisible_chars(st.p)} |->
    IF e.ret # 0 THEN [done |-> TRUE, ret |-> 0, p |-> e.p]
    ELSE
    With([s \in {ActiveStream(e.p)} |->
    With([chan \in {[position |-> s.position, line |-> s.line, column |-> s.column,
                 have_saved_char |-> s.have_saved_char,
                 saved_char |-> s.saved_char, block |-> 0]} |->
    With([q \in {[e.p EXCEPT !.channels[e.p.channel_count] = chan,
                         !.channel_count = @ + 1]} |->
    With([f \in {_find_channel_end(q, NUL)} |->
    IF f.ret # 0 THEN [done |-> TRUE, ret |-> 0, p |-> f.p]
    ELSE IF f.c = "|"
    THEN IF PTTTL_MAX_CHANNELS_PER_FILE = f.p.channel_count
         THEN [done |-> TRUE, ret |-> 0 - 1,
               p |-> ERROR(f.p, "Exceeded maximum channel count")]
         ELSE [done |-> FALSE, ret |-> 0, p |-> f.p]
    ELSE [done |-> TRUE, ret |-> 0, p |-> f.p]])])])])])

\* Up to n passes of the outer while loop, as two halves
RECURSIVE _find_channels_passes(_, _)
_find_channels_passes(st, n) ==
    IF st.done THEN st
    ELSE IF n = 1 THEN _find_channels_pass(st)
    ELSE _find_channels_passes(_find_channels_passes(st, n \div 2), n - (n \div 2))

\* The outer while loop of channel discovery; every pass counts one channel
\* and the loop is left when PTTTL_MAX_CHANNELS_PER_FILE are followed by '|'
_find_channels(p) ==
    With([st \in {_find_channels_passes([done |-> FALSE, ret |-> 0, p |-> p],
                                       PTTTL_MAX_CHANNELS_PER_FILE)} |->
    [ret |-> st.ret, p |-> st.p]])

ptttl_parse_init(p0, iface_null) ==
    With([p1 \in {[p0 EXCEPT !.stream = [@ EXCEPT !.line = 1, !.column = 0,
                                              !.position = 0,
                                              !.have_saved_char = 0,
                                              !.block = 0],
                         !.channel_count = 0,
                         !.error = [error_message |-> NoError, line |-> 0,
                                    column |-> 0]]} |->
    IF iface_null THEN [ret |-> 0 - 1, p |-> ERROR(p1, "NULL interface pointer provided")]
    ELSE
    With([p2 \in {[p1 EXCEPT !.active_stream = StreamParser]} |->
        \* Ensure stream position is at 0 (the return value is not looked at)
    With([p3 \in {[iface_seek(p2, 0).p EXCEPT !.name = <<>>, !.name_terminated = FALSE]} |->
    With([e \in {_eat_all_nonvisible_chars(p3)} |->
    With([chk \in {CHECK_IFACE_RET(e.p, e.ret)} |->
    IF chk.returns THEN [ret |-> chk.ret, p |-> chk.p]
    ELSE
    With([n \in {_read_name_loop(e.p, NUL)} |->
    IF n.toolong THEN [ret |-> 0 - 1, p |-> n.p]
    ELSE
    With([chk2 \in {CHECK_IFACE_RET(n.p, n.readchar_ret)} |->
    IF chk2.returns THEN [ret |-> chk2.ret, p |-> chk2.p]
    ELSE
    With([st \in {_parse_settings(n.p)} |->
    IF st.ret # 0 THEN [ret |-> 0 - 1, p |-> st.p]
    ELSE _find_channels(st.p)])])])])])])])])

----------------------------------------------------------------------------
(* ptttl_parse_next *)

\* the highest channel below channel_idx whose block is target_block, or NoMatch
EarlierIdx(p, channel_idx, target_block) ==
    With([c \in {{eidx \in 0..(channel_idx - 1) : p.channels[eidx].block = target_block}} |->
    IF c = {} THEN NoMatch ELSE CHOOSE eidx \in c : \A o \in c : o <= eidx])

\* The for loop that looks for a higher channel further ahead in the block
RECURSIVE FurthestIdx(_, _, _, _, _)
FurthestIdx(p, fidx, block, furthest_pos, furthest) ==
    IF fidx >= p.channel_count THEN furthest
    ELSE IF p.channels[fidx].block = block /\ p.channels[fidx].position > furthest_pos
    THEN FurthestIdx(p, fidx + 1, block, p.channels[fidx].position, fidx)
    ELSE FurthestIdx(p, fidx + 1, block, furthest_pos, furthest)

\* while ((ret = _get_next_visible_char(parser, &nextchar)) == 0) until ';'
RECURSIVE _find_semicolon(_, _)
_find_semicolon(p, nextchar) ==
    With([g \in {_get_next_visible_char(p, nextchar)} |->
    IF g.ret # 0 THEN [ret |-> g.ret, p |-> g.p, c |-> g.c]
    ELSE IF g.c = ";" THEN [ret |-> 0, p |-> g.p, c |-> g.c]
    ELSE _find_semicolon(g.p, g.c)])

\* The for loop that skips pipes; i pipes are still to be skipped
RECURSIVE _skip_pipes(_, _, _)
_skip_pipes(p, nextchar, i) ==
    IF i = 0 THEN [ret |-> 0, p |-> p, c |-> nextchar]
    ELSE
    With([g \in {_get_next_visible_char(p, nextchar)} |->
    IF g.ret # 0 THEN _skip_pipes(g.p, g.c, i - 1)
    ELSE IF g.c = "|" THEN _skip_pipes(g.p, g.c, i - 1)
    ELSE IF g.c = ";" THEN [ret |-> 0 - 1,
          p |-> ERROR(g.p, "Unexpected end of block (all blocks must have the same channel count)"), c |-> g.c]
    ELSE _skip_pipes(g.p, g.c, i)])

\* block = target_block, then the trailing _eat_all_nonvisible_chars
_jump_tail(p, nextchar, pipes_to_skip, target_block) ==
    With([sk \in {_skip_pipes(p, nextchar, pipes_to_skip)} |->
    IF sk.ret # 0 THEN [ret |-> sk.ret, p |-> sk.p]
    ELSE _eat_all_nonvisible_chars(
             SetActive(sk.p, [ActiveStream(sk.p) EXCEPT !.block = target_block]))])

_jump_to_next_block(p, channel_idx, find_semicolon) ==
    With([target_block \in {ActiveStream(p).block + 1} |->
    With([earlier_idx \in {IF channel_idx > 0
                       THEN EarlierIdx(p, channel_idx, target_block)
                       ELSE NoMatch} |->
    IF earlier_idx = NoMatch
    THEN \* No suitable lower channel found
         With([furthest \in {IF find_semicolon = 1
                         THEN FurthestIdx(p, channel_idx + 1, ActiveStream(p).block,
                                          ActiveStream(p).position, NoMatch)
                         ELSE NoMatch} |->
         With([sw \in {IF furthest # NoMatch
                   THEN _seek_wrapper(p, p.channels[furthest].position)
                   ELSE [ret |-> 0, p |-> p]} |->
         With([chk \in {CHECK_IFACE_RET_EOF(sw.p, sw.ret)} |->
         IF chk.returns THEN [ret |-> chk.ret, p |-> chk.p]
         ELSE
         With([q \in {IF furthest # NoMatch
                  THEN SetActive(sw.p, sw.p.channels[furthest])
                  ELSE sw.p} |->
         With([fs \in {IF find_semicolon = 1 THEN _find_semicolon(q, NUL)
                   ELSE [ret |-> 0, p |-> q, c |-> NUL]} |->
         With([e \in {_eat_all_nonvisible_chars(fs.p)} |->
         IF e.ret # 0 THEN [ret |-> e.ret, p |-> e.p]
         ELSE IF channel_idx = 0
         THEN [ret |-> 0,
               p |-> SetActive(e.p, [ActiveStream(e.p) EXCEPT !.block = target_block])]
         ELSE _jump_tail(e.p, fs.c, channel_idx, target_block)])])])])])])
    ELSE \* Suitable lower channel found
         With([sw \in {_seek_wrapper(p, p.channels[earlier_idx].position)} |->
         With([chk \in {CHECK_IFACE_RET_EOF(sw.p, sw.ret)} |->
         IF chk.returns THEN [ret |-> chk.ret, p |-> chk.p]
         ELSE _jump_tail(SetActive(sw.p, sw.p.channels[earlier_idx]), NUL,
                         channel_idx - earlier_idx, target_block)])])])])

\* return 0 after "parser->active_stream->have_saved_char = 0u"
ClearSaved(p) == SetActive(p, [ActiveStream(p) EXCEPT !.have_saved_char = 0])

\* ptttl_parse_next that takes any character after a note as it takes ','
ptttl_parse_next_lenient(p, channel_idx, note) ==
    IF channel_idx >= p.channel_count
    THEN [ret |-> 0 - 1, p |-> ERROR(p, "Invalid channel requested"), note |-> note]
    ELSE
    With([p1 \in {[p EXCEPT !.active_stream = channel_idx]} |->
    With([sw \in {_seek_wrapper(p1, ActiveStream(p1).position)} |->
    With([chk \in {CHECK_IFACE_RET_EOF(sw.p, sw.ret)} |->
    IF chk.returns THEN [ret |-> chk.ret, p |-> chk.p, note |-> note]
    ELSE
    With([pn \in {_parse_ptttl_note(sw.p, note)} |->
    IF pn.ret # 0 THEN [ret |-> pn.ret, p |-> pn.p, note |-> pn.output]
    ELSE
    With([g \in {_get_next_visible_char(pn.p, NUL)} |->
    IF g.ret = 1 THEN [ret |-> 0, p |-> ClearSaved(g.p), note |-> pn.output]
    ELSE IF g.ret # 0 THEN [ret |-> g.ret, p |-> g.p, note |-> pn.output]
    ELSE
    With([r \in {CASE g.c = "|" -> _jump_to_next_block(g.p, channel_idx, 1)
               [] g.c = ";" -> _jump_to_next_block(g.p, channel_idx, 0)
               [] OTHER -> _eat_all_nonvisible_chars(g.p)} |->
    IF r.ret = 1
    THEN [ret |-> 0, p |-> ClearSaved(r.p), note |-> pn.output]
    ELSE [ret |-> r.ret, p |-> r.p, note |-> pn.output]])])])])])])

ptttl_parse_next(p, channel_idx, note) ==
    IF channel_idx >= p.channel_count
    THEN [ret |-> 0 - 1, p |-> ERROR(p, "Invalid channel requested"), note |-> note]
    ELSE
    With([p1 \in {[p EXCEPT !.active_stream = channel_idx]} |->
    With([sw \in {_seek_wrapper(p1, ActiveStream(p1).position)} |->
    With([chk \in {CHECK_IFACE_RET_EOF(sw.p, sw.ret)} |->
    IF chk.returns THEN [ret |-> chk.ret, p |-> chk.p, note |-> note]
    ELSE
    With([pn \in {_parse_ptttl_note(sw.p, note)} |->
    IF pn.ret # 0 THEN [ret |-> pn.ret, p |-> pn.p, note |-> pn.output]
    ELSE
    With([g \in {_get_next_visible_char(pn.p, NUL)} |->
    IF g.ret = 1 THEN [ret |-> 0, p |-> ClearSaved(g.p), note |-> pn.output]
    ELSE IF g.ret # 0 THEN [ret |-> g.ret, p |-> g.p, note |-> pn.output]
    ELSE
    With([r \in {CASE g.c = "|" -> _jump_to_next_block(g.p, channel_idx, 1)
               [] g.c = ";" -> _jump_to_next_block(g.p, channel_idx, 0)
               [] g.c = "," -> _eat_all_nonvisible_chars(g.p)
               [] OTHER -> [ret |-> 0 - 1,
                     p |-> ERROR(g.p, "Expecting '|', ';', ',', or note vibrato settings")]} |->
    IF r.ret = 1 /\ g.c \in {"|", ";", ","}
    THEN [ret |-> 0, p |-> ClearSaved(r.p), note |-> pn.output]
    ELSE [ret |-> r.ret, p |-> r.p, note |-> pn.output]])])])])])])

----------------------------------------------------------------------------
(* ptttl_sample_generator.c.  Only the default waveform, the sine, is        *)
(* modelled: the other built-in waveforms depend on a build setting.        *)

\* Max positive value of a signed 16-bit sample
MAX_SAMPLE_VALUE == 32767

\* Store an error message for reporting by ptttl_parser_error()
GENERATOR_ERROR(p, msg) ==
    With([s \in {ActiveStream(p)} |->
    [p EXCEPT !.error = [error_message |-> msg, line |-> s.line,
                         column |-> s.column]]])

\* The float literal num / den
F32Literal(num, den) == F32Div(F32FromInt(num), F32FromInt(den))

\* _sine_generator(x, p, s); p and s are unused
_sine_generator(x, p, s) ==
    With([x1 \in {IF F32Less(x, F32Zero) THEN F32Sub(F32Literal(1, 2), x) ELSE x} |->
    With([x2 \in {F32Sub(x1, F32Add(F32Literal(1, 2), F32FromInt(F32ToInt(x1))))} |->
    With([x3 \in {F32Mul(x2, F32Mul(F32FromInt(16),
                                F32Sub(IF F32Less(x2, F32Zero) THEN F32Neg(x2) ELSE x2,
                                       F32Literal(1, 2))))} |->
    F32Add(x3, F32Mul(F32Mul(F32Literal(225, 1000),
                                F32Sub(IF F32Less(x3, F32Zero) THEN F32Neg(x3) ELSE x3,
                                       F32FromInt(1))),
                         x3))])])])

_generate_waveform_point(wgen, sample_rate, freq, sine_index) ==
    With([sine_state \in {F32Mul(freq, F32Div(F32FromInt(sine_index),
                                          F32FromInt(sample_rate)))} |->
    _sine_generator(sine_state, freq, sample_rate)])

_generate_waveform_sample(wgen, sample_rate, freq, sine_index) ==
    F32ToInt(F32Mul(_generate_waveform_point(wgen, sample_rate, freq, sine_index),
                    F32FromInt(MAX_SAMPLE_VALUE)))

_raise_powerof2(exp) == 2^exp

\* Maps note_pitch_e enum values to the corresponding pitch in Hz
note_pitches ==
    <<[s |-> 0, m |-> 8572947, e |-> -15],    \* 261.625565301f
      [s |-> 0, m |-> 9082720, e |-> -15],    \* 277.182630977f
      [s |-> 0, m |-> 9622807, e |-> -15],    \* 293.664767918f
      [s |-> 0, m |-> 10195009, e |-> -15],   \* 311.126983723f
      [s |-> 0, m |-> 10801236, e |-> -15],   \* 329.627556913f
      [s |-> 0, m |-> 11443511, e |-> -15],   \* 349.228231433f
      [s |-> 0, m |-> 12123977, e |-> -15],   \* 369.994422712f
      [s |-> 0, m |-> 12844906, e |-> -15],   \* 391.995435982f
      [s |-> 0, m |-> 13608704, e |-> -15],   \* 415.30469758f
      [s |-> 0, m |-> 14417920, e |-> -15],   \* 440.0f
      [s |-> 0, m |-> 15275254, e |-> -15],   \* 466.163761518f
      [s |-> 0, m |-> 16183568, e |-> -15]>>  \* 493.883301256f

\* A conversion whose octaves begin at B
_note_number_to_pitch_from_b(note_number) ==
    With([octave \in {((note_number + 21) \div 12) - 1} |->
    With([note_pitch_index \in {(note_number + 8) % NOTE_PITCH_COUNT} |->
    With([result \in {note_pitches[note_pitch_index + 1]} |->
    IF octave < 4
       THEN F32Div(result, F32FromInt(_raise_powerof2(4 - octave)))
       ELSE IF octave > 4
       THEN F32Mul(result, F32FromInt(_raise_powerof2(octave - 4)))
       ELSE result])])])

_note_number_to_pitch(note_number) ==
    With([octave \in {((note_number + 20) \div 12) - 1} |->
    With([note_pitch_index \in {(note_number + 8) % NOTE_PITCH_COUNT} |->
    With([result \in {note_pitches[note_pitch_index + 1]} |->
    IF octave < 4
       THEN F32Div(result, F32FromInt(_raise_powerof2(4 - octave)))
       ELSE IF octave > 4
       THEN F32Mul(result, F32FromInt(_raise_powerof2(octave - 4)))
       ELSE result])])])

\* A ptttl_note_stream_t that nothing has been stored in
ZeroNoteStream ==
    [sine_index |-> 0, start_sample |-> 0, phasor_state |-> F32Zero,
     num_samples |-> 0, attack |-> 0, decay |-> 0, vibrato_frequency |-> 0,
     vibrato_variance |-> 0, note_number |-> 0, pitch_hz |-> F32Zero,
     wgen |-> "none"]

\* The note stream after _load_note_stream(generator, note, note_stream)
_load_note_stream(generator, note, note_stream) ==
    With([time_ms \in {PTTTL_NOTE_DURATION(note)} |->
    With([num_samples \in {F32ToInt(F32Mul(F32FromInt(time_ms),
                           F32Div(F32FromInt(generator.config.sample_rate),
                                  F32FromInt(1000))))} |->
    With([attack0 \in {generator.config.attack_samples} |->
    With([decay0 \in {generator.config.decay_samples} |->
    With([diff \in {(attack0 + decay0) - num_samples} |->
    With([attack \in {IF attack0 + decay0 > num_samples /\ attack0 > decay0
                  THEN (IF attack0 > diff THEN attack0 - diff ELSE 0)
                  ELSE attack0} |->
    With([decay \in {IF attack0 + decay0 > num_samples /\ ~(attack0 > decay0)
                 THEN (IF decay0 > diff THEN decay0 - diff ELSE 0)
                 ELSE decay0} |->
    With([note_number \in {PTTTL_NOTE_VALUE(note)} |->
    [note_stream EXCEPT
           !.sine_index = 0,
           !.start_sample = generator.current_sample,
           !.phasor_state = F32Zero,
           !.num_samples = num_samples,
           !.attack = attack,
           !.decay = decay,
           !.vibrato_frequency = PTTTL_NOTE_VIBRATO_FREQ(note),
           !.vibrato_variance = PTTTL_NOTE_VIBRATO_VAR(note),
           !.note_number = note_number,
           !.pitch_hz = IF note_number # 0 THEN _note_number_to_pitch(note_number)
                        ELSE @]])])])])])])])])

\* A generator object that nothing has been stored in
ZeroGenerator ==
    [config |-> [sample_rate |-> 0, attack_samples |-> 0, decay_samples |-> 0,
                 amplitude |-> F32Zero],
     current_sample |-> 0,
     channel_finished |-> [k \in 0..(PTTTL_MAX_CHANNELS_PER_FILE - 1) |-> 0],
     note_streams |-> [k \in 0..(PTTTL_MAX_CHANNELS_PER_FILE - 1) |-> ZeroNoteStream]]

RECURSIVE _create_channels(_, _, _)
\* The for loop of ptttl_sample_generator_create, from channel chan on
_create_channels(p, generator, chan) ==
    IF chan >= p.channel_count THEN [ret |-> 0, p |-> p, generator |-> generator]
    ELSE
    With([n \in {ptttl_parse_next(p, chan, ZeroNote)} |->
    IF n.ret # 0 THEN [ret |-> n.ret, p |-> n.p, generator |-> generator]
    ELSE
    With([loaded \in {_load_note_stream(generator, n.note, generator.note_streams[chan])} |->
    _create_channels(n.p,
           [generator EXCEPT !.note_streams[chan] = [loaded EXCEPT !.wgen = "sine"]],
           chan + 1)])])

\* A create that copies the config into the generator before it looks at the
\* amplitude
_create_storing_config(p, generator, config) ==
    IF 0 = p.channel_count
    THEN [ret |-> 0 - 1,
          p |-> GENERATOR_ERROR(p, "PTTTL parser object has a channel count of 0"), generator |-> generator]
    ELSE IF F32Less(F32FromInt(1), config.amplitude) \/ F32Less(config.amplitude, F32Zero)
    THEN [ret |-> 0 - 1,
          p |-> GENERATOR_ERROR(p, "Sample generator amplitude must be between 0.0 - 1.0"),
          generator |-> [generator EXCEPT !.config = config]]
    ELSE _create_channels(p,
             [generator EXCEPT
                 !.config = config,
                 !.current_sample = 0,
                 !.channel_finished = [k \in DOMAIN @ |-> 0]],
             0)

ptttl_sample_generator_create(p, generator, config) ==
    IF 0 = p.channel_count
    THEN [ret |-> 0 - 1,
          p |-> GENERATOR_ERROR(p, "PTTTL parser object has a channel count of 0"), generator |-> generator]
    ELSE IF F32Less(F32FromInt(1), config.amplitude) \/ F32Less(config.amplitude, F32Zero)
    THEN [ret |-> 0 - 1,
          p |-> GENERATOR_ERROR(p, "Sample generator amplitude must be between 0.0 - 1.0"), generator |-> generator]
    ELSE _create_channels(p,
             [generator EXCEPT
                 !.config = config,
                 !.current_sample = 0,
                 !.channel_finished = [k \in DOMAIN @ |-> 0]],
             0)

\* raw_sample *= numerator / denominator, on an int32_t
ScaleSample(raw_sample, numerator, denominator) ==
    F32ToInt(F32Mul(F32FromInt(raw_sample),
                    F32Div(F32FromInt(numerator), F32FromInt(denominator))))

_generate_channel_sample(p, generator, channel_idx) ==
    With([stream \in {generator.note_streams[channel_idx]} |->
    With([sample_rate \in {generator.config.sample_rate} |->
    With([vibrato \in {stream.vibrato_frequency # 0 \/ stream.vibrato_variance # 0} |->
        \* the branch with vibrato
    With([vsine \in {_generate_waveform_point("sine", sample_rate,
                     F32FromInt(stream.vibrato_frequency), stream.sine_index)} |->
    With([pitch_change_hz \in {F32Mul(F32FromInt(stream.vibrato_variance), vsine)} |->
    With([note_pitch_hz \in {F32Add(stream.pitch_hz, pitch_change_hz)} |->
    With([vsample \in {_sine_generator(stream.phasor_state, note_pitch_hz, sample_rate)} |->
    With([phasor_inc \in {F32Div(note_pitch_hz, F32FromInt(sample_rate))} |->
    With([phasor1 \in {F32Add(stream.phasor_state, phasor_inc)} |->
    With([phasor2 \in {IF F32GreaterEq(phasor1, F32FromInt(1))
                   THEN F32Sub(phasor1, F32FromInt(1)) ELSE phasor1} |->
    With([raw0 \in {IF vibrato
                THEN F32ToInt(F32Mul(vsample, F32FromInt(MAX_SAMPLE_VALUE)))
                ELSE _generate_waveform_sample(stream.wgen, sample_rate,
                                               stream.pitch_hz, stream.sine_index)} |->
        \* Handle attack & decay
    With([samples_elapsed \in {generator.current_sample - stream.start_sample} |->
    With([samples_remaining \in {stream.num_samples - samples_elapsed} |->
    With([raw_sample \in {IF samples_elapsed < stream.attack
                      THEN ScaleSample(raw0, samples_elapsed, stream.attack)
                      ELSE IF samples_remaining < stream.decay
                      THEN ScaleSample(raw0, samples_remaining, stream.decay)
                      ELSE raw0} |->
    With([sample \in {IF 0 = stream.note_number THEN F32Zero
                  ELSE F32Mul(F32FromInt(raw_sample), generator.config.amplitude)} |->
    With([stream1 \in {IF 0 = stream.note_number THEN stream
                   ELSE [stream EXCEPT !.sine_index = @ + 1,
                                       !.phasor_state = IF vibrato THEN phasor2 ELSE @]} |->
    With([g1 \in {[generator EXCEPT !.note_streams[channel_idx] = stream1]} |->
    \* Check if last sample for this note stream
    IF samples_elapsed >= stream.num_samples
    THEN With([n \in {ptttl_parse_next(p, channel_idx, ZeroNote)} |->
         [ret |-> n.ret, p |-> n.p, sample |-> sample,
          generator |-> IF n.ret = 0
                        THEN [g1 EXCEPT !.note_streams[channel_idx] =
                                            _load_note_stream(g1, n.note, stream1)]
                        ELSE g1]])
    ELSE [ret |-> 0, p |-> p, sample |-> sample, generator |-> g1]])])])])])])])])])])])])])])])])])

RECURSIVE _sum_channels(_, _, _, _, _)
\* The inner for loop of ptttl_sample_generator_generate, from channel chan on
_sum_channels(p, generator, chan, summed_sample, num_channels_provided) ==
    IF chan >= p.channel_count
    THEN [ret |-> 0, p |-> p, generator |-> generator,
          summed_sample |-> summed_sample,
          num_channels_provided |-> num_channels_provided]
    ELSE IF 1 = generator.channel_finished[chan]
    THEN _sum_channels(p, generator, chan + 1, summed_sample, num_channels_provided)
    ELSE
    With([c \in {_generate_channel_sample(p, generator, chan)} |->
    IF c.ret < 0
    THEN [ret |-> c.ret, p |-> c.p, generator |-> c.generator,
          summed_sample |-> summed_sample,
          num_channels_provided |-> num_channels_provided + 1]
    ELSE _sum_channels(c.p,
             [c.generator EXCEPT !.channel_finished[chan] = c.ret],
             chan + 1, F32Add(summed_sample, c.sample), num_channels_provided + 1)])

RECURSIVE _generate_loop_active(_, _, _, _)
\* An outer loop that divides the sum by the number of channels that
\* provided a sample on the tick
_generate_loop_active(p, generator, samples_to_generate, samples) ==
    IF Len(samples) >= samples_to_generate
    THEN [ret |-> 0, p |-> p, generator |-> generator, samples |-> samples]
    ELSE
    With([s \in {_sum_channels(p, generator, 0, F32Zero, 0)} |->
    IF s.ret < 0
    THEN [ret |-> s.ret, p |-> s.p, generator |-> s.generator, samples |-> samples]
    ELSE IF s.num_channels_provided = 0
    THEN [ret |-> 1, p |-> s.p, generator |-> s.generator, samples |-> samples]
    ELSE _generate_loop_active(s.p,
             [s.generator EXCEPT !.current_sample = @ + 1],
             samples_to_generate,
             Append(samples, F32ToInt(F32Div(s.summed_sample,
                                             F32FromInt(s.num_channels_provided)))))])

RECURSIVE _generate_loop(_, _, _, _)
\* The outer for loop of ptttl_sample_generator_generate; samples are the
\* ones stored so far, so Len(samples) is samplenum and *num_samples
_generate_loop(p, generator, samples_to_generate, samples) ==
    IF Len(samples) >= samples_to_generate
    THEN [ret |-> 0, p |-> p, generator |-> generator, samples |-> samples]
    ELSE
    With([s \in {_sum_channels(p, generator, 0, F32Zero, 0)} |->
    IF s.ret < 0
    THEN [ret |-> s.ret, p |-> s.p, generator |-> s.generator, samples |-> samples]
    ELSE IF s.num_channels_provided = 0
    THEN [ret |-> 1, p |-> s.p, generator |-> s.generator, samples |-> samples]
    ELSE _generate_loop(s.p,
             [s.generator EXCEPT !.current_sample = @ + 1],
             samples_to_generate,
             Append(samples, F32ToInt(F32Div(s.summed_sample,
                                             F32FromInt(s.p.channel_count)))))])

\* A generate that reports the end of the song as soon as one channel has
\* finished
_generate_first_finished(p, generator, num_samples) ==
    With([r \in {_generate_loop(p, generator, num_samples, <<>>)} |->
    [r EXCEPT !.ret = IF @ = 0 /\ \E c \in 0..(p.channel_count - 1) :
                                     r.generator.channel_finished[c] = 1
                      THEN 1 ELSE @]])

\* A generate that, when it has filled the buffer, reports and keeps one
\* sample fewer than it made
_generate_dropping(p, generator, num_samples) ==
    With([r \in {_generate_loop(p, generator, num_samples, <<>>)} |->
    [r EXCEPT !.samples = IF r.ret = 0 /\ Len(@) > 1
                          THEN SubSeq(@, 1, Len(@) - 1) ELSE @]])

\* num_samples is the value of *num_samples at the call; Len(samples) is its
\* value at the return
ptttl_sample_generator_generate(p, generator, num_samples) ==
    _generate_loop(p, generator, num_samples, <<>>)

----------------------------------------------------------------------------
(* Source texts: what the read callback delivers *)

DigitChars == <<"0", "1", "2", "3", "4", "5", "6", "7", "8", "9">>

RECURSIVE ToDigits(_)
\* the decimal spelling of n
ToDigits(n) ==
    IF n < 10 THEN <<DigitChars[n + 1]>>
    ELSE ToDigits(n \div 10) \o <<DigitChars[(n % 10) + 1]>>

\* Bounds of the source texts
MaxItems == 3
MaxBpm == 130

Letters == <<"c", "d", "e", "f", "g", "a", "b">>
Seps == {",", "|", ";"}
Tails == {<<>>, <<";">>, <<"\n">>, <<";", "\n">>}

\* "x:b=240:"
StructHeader == <<"x", ":", "b", "=", "2", "4", "0", ":">>

RECURSIVE StructBody(_, _, _, _)
\* items i..n: the i-th letter (the first one sharp if asked), each followed
\* by its separator
StructBody(i, n, seps, sharp) ==
    IF i > n THEN <<>>
    ELSE <<Letters[i]>> \o (IF sharp /\ i = 1 THEN <<"#">> ELSE <<>>)
         \o (IF i < n THEN <<seps[i]>> ELSE <<>>)
         \o StructBody(i + 1, n, seps, sharp)

\* Two channels of two notes, in one block and in two
TwoByTwo == {<<",", "|", ",">>, <<"|", ";", "|">>}

\* Every arrangement of up to MaxItems notes into channels and blocks, the
\* arrangements of two notes whose first note is a sharp, and two channels of
\* two notes
StructSources ==
    UNION {{StructHeader \o StructBody(1, n, seps, FALSE) \o tail :
              seps \in [1..(n - 1) -> Seps], tail \in Tails} : n \in 1..MaxItems}
    \cup {StructHeader \o StructBody(1, 2, seps, TRUE) \o tail :
              seps \in [1..1 -> Seps], tail \in Tails}
    \cup {StructHeader \o StructBody(1, 4, seps, FALSE) \o tail :
              seps \in TwoByTwo, tail \in Tails}

\* "x:b=<bpm>,d=<duration>,o=<octave>:"
NoteHeader(bpm, duration, octave) ==
    <<"x", ":", "b", "=">> \o ToDigits(bpm) \o <<",", "d", "=">> \o ToDigits(duration)
    \o <<",", "o", "=">> \o ToDigits(octave) \o <<":">>

\* One note: every pitch letter, accidental and octave digit, under a low, a
\* middle and the highest default octave
PitchSources ==
    {NoteHeader(240, 4, o) \o <<l>> \o acc \o oct \o <<"\n">> :
        l \in {"c", "d", "e", "f", "g", "a", "b", "p", "A", "h"},
        acc \in {<<>>, <<"#">>, <<"b">>},
        oct \in {<<>>} \cup {<<DigitChars[d]>> : d \in 1..10},
        o \in {0, 4, 8}}

\* The tempos: every one up to MaxBpm, and those around the shortest note
Bpms == 1..MaxBpm \cup {240, 7500, 7501, 11250}

\* An undotted note and the same note dotted (after the pitch, after the
\* octave, or both), for every tempo and default duration
DurSources ==
    {NoteHeader(b, _valid_note_durations[i], 5) \o <<"c", "5", ",", "c">> \o dots
       \o <<"\n">> :
        b \in Bpms, i \in 1..NOTE_DURATION_COUNT,
        dots \in {<<".", "5">>, <<"5", ".">>, <<".", "5", ".">>}}

\* "test:d=4,o=5,b=120:c,e,g;"
ExampleSource ==
    <<"t", "e", "s", "t", ":", "d", "=", "4", ",", "o", "=", "5", ",",
      "b", "=", "1", "2", "0", ":", "c", ",", "e", ",", "g", ";">>

NoteSources == PitchSources \cup DurSources \cup {ExampleSource}

\* One setting, or none: "" or "<key>=<value>"
OptionTexts(key, values) ==
    {<<>>} \cup {<<key, "=">> \o ToDigits(v) : v \in values}

RECURSIVE JoinOptions(_)
\* the non-empty option texts, separated by commas
JoinOptions(opts) ==
    IF opts = <<>> THEN <<>>
    ELSE IF Head(opts) = <<>> THEN JoinOptions(Tail(opts))
    ELSE With([rest \in {JoinOptions(Tail(opts))} |->
         IF rest = <<>> THEN Head(opts) ELSE Head(opts) \o <<",">> \o rest])

\* Settings sections, valid and not, before no notes, one channel, and two
\* channels in two blocks
RangeSources ==
    {<<"x", ":">> \o JoinOptions(<<b, d, o>>) \o <<":">> \o body :
        b \in OptionTexts("b", {0, 1, 900}),
        d \in OptionTexts("d", {0, 1, 3, 16, 32, 64}),
        o \in OptionTexts("o", {0, 8, 9}),
        body \in {<<>>, <<"\n">>, <<"c">>,
                  <<"c", "|", "d", ";", "e", "|", "f", ";">>}}

\* The settings that have a default, each one left out or written, the
\* vibrato settings also at and above their maximum, before one note with
\* vibrato
DefaultSources ==
    {<<"x", ":">> \o JoinOptions(<<<<"b", "=", "9", "0", "0">>, d, o, f, v>>)
       \o <<":", "c", "v", "\n">> :
        d \in OptionTexts("d", {8}),
        o \in OptionTexts("o", {4}),
        f \in OptionTexts("f", {7, 65535, 65536}),
        v \in OptionTexts("v", {10, 65535, 65536})}

\* Numbers written with leading zeros, and one above the unsigned int range:
\* "x:<key>=<digits>:c\n"
SpelledSources ==
    {<<"x", ":", kd[1], "=">> \o kd[2] \o <<":", "c", "\n">> :
        kd \in {<<"b", <<"0", "0">>>>, <<"b", <<"0", "1", "0">>>>,
                <<"d", <<"0", "1", "0">>>>, <<"d", <<"0", "3">>>>,
                <<"o", <<"0", "1", "0">>>>, <<"o", <<"0", "1", "1">>>>,
                <<"f", <<"4", "2", "9", "4", "9", "6", "7", "2", "9", "6">>>>,
                <<"v", <<"0", "2", "0", "0", "0", "0", "0">>>>}}

\* Names of every length around PTTTL_MAX_NAME_LEN, bare and after white
\* space or a comment line, and names with white space inside, before two
\* channels
NameOfLength(n) == [i \in 1..n |-> "a"]

NameSources ==
    {lead \o name \o <<":", "b", "=", "9", "0", "0", ":", "c", ",", "d", "|", "e", "\n">> :
        lead \in {<<>>, <<" ">>, <<"\n", " ">>, <<"#", "a", "\n">>},
        name \in {NameOfLength(n) : n \in {0, 1, PTTTL_MAX_NAME_LEN - 2,
                                      PTTTL_MAX_NAME_LEN - 1, PTTTL_MAX_NAME_LEN,
                                      PTTTL_MAX_NAME_LEN + 1}}
               \cup {<<"a", " ", "b">>, <<"a", "\n", "b">>, <<"a", "#", "b">>, <<"a", " ">>}}

\* Digit runs around the size of the buffer and around the unsigned int
\* range, and no digit at all: "x:<key>=<digits>:cv\n"
Repeated(c, n) == [i \in 1..n |-> c]

UIntDigits ==
    {Repeated("1", n) : n \in {0, 1, 9, 10, 11, UIntBufSize - 2, UIntBufSize - 1,
                               UIntBufSize, UIntBufSize + 1}}
    \cup {Repeated("0", UIntBufSize - 1), Repeated("0", UIntBufSize),
          <<"4", "2", "9", "4", "9", "6", "7", "2", "9", "6">>,
          <<"2", "1", "4", "7", "4", "8", "3", "6", "4", "7">>,
          <<"0", "7", "7", "7", "7", "7", "7", "7", "7", "7", "7">>,
          <<"0", "4", "0", "0", "0", "0", "0", "0", "0", "0", "0", "0">>}

UIntSources ==
    {<<"x", ":", key, "=">> \o digits \o <<":", "c", "v", "\n">> :
        key \in {"o", "f"}, digits \in UIntDigits}

SettingsSources == RangeSources \cup DefaultSources \cup SpelledSources \cup UIntSources

----------------------------------------------------------------------------
(* The state machine: a caller of the library *)

VARIABLES
    parser,   \* the ptttl_parser_t object and the input it reads
    phase,    \* "new", "ready" (ptttl_parse_init returned 0) or "failed"
    notes,    \* per channel, the notes for which ptttl_parse_next returned 0
    last,     \* per channel, the return value of its last ptttl_parse_next
    generator,\* the ptttl_sample_generator_t object
    samples,  \* the samples that ptttl_sample_generator_generate has stored
    wav       \* ptttl_to_wav: its num_samples, and the file it has written

vars == <<parser, phase, notes, last, generator, samples, wav>>

Chans == 0..(PTTTL_MAX_CHANNELS_PER_FILE - 1)

\* no call of ptttl_parse_next has been made for the channel: a value that is
\* none of its return values 0, 1 and -1
NoCall == 2

\* ptttl_to_wav has not been called: nothing is in the file
NoWav == [num_samples |-> 0, framecount |-> 0, header |-> <<>>, data |-> <<>>]

\* The caller's objects before the first call, the parser being one of parsers
InitWith(parsers) ==
    /\ parser \in parsers
    /\ phase = "new"
    /\ notes = [k \in Chans |-> <<>>]
    /\ last = [k \in Chans |-> NoCall]
    /\ generator = ZeroGenerator
    /\ samples = <<>>
    /\ wav = NoWav

\* Parsers of the sources whose callbacks never fail
Reading(sources) == {NewParser(src, NoFail, NoFail) : src \in sources}

Init == InitWith(Reading(StructSources))

\* The parser as a call of the interface finds it: no callback has failed
\* during this call yet
Called(p) == [p EXCEPT !.iface_failed = FALSE]

ParseInit ==
    /\ phase = "new"
    /\ \E r \in {ptttl_parse_init(Called(parser), FALSE)} :
       /\ parser' = r.p
       /\ phase' = IF r.ret = 0 THEN "ready" ELSE "failed"
    /\ UNCHANGED <<notes, last, generator, samples, wav>>

ParseNext(c) ==
    /\ phase = "ready"
    /\ c < parser.channel_count
    /\ \E r \in {ptttl_parse_next(Called(parser), c, ZeroNote)} :
       /\ parser' = r.p
       /\ notes' = IF r.ret = 0 THEN [notes EXCEPT ![c] = Append(@, r.note)] ELSE notes
       /\ last' = [last EXCEPT ![c] = r.ret]
    /\ UNCHANGED <<phase, generator, samples, wav>>

Next ==
    \/ ParseInit
    \/ \E c \in Chans : ParseNext(c)

\* Notes arranged into channels and blocks
Spec == Init /\ [][Next]_vars

\* Spellings of one note, and tempos
InitNotes == InitWith(Reading(NoteSources))
SpecNotes == InitNotes /\ [][Next]_vars

\* Settings sections
InitSettings == InitWith(Reading(SettingsSources))
SpecSettings == InitSettings /\ [][Next]_vars

\* First blocks of up to PTTTL_MAX_CHANNELS_PER_FILE + 2 channels of one note,
\* ended by the end of the input, by a semicolon, or followed by a second
\* block of as many channels
RECURSIVE ChannelBlock(_, _)
ChannelBlock(n, sep) ==
    IF n = 1 THEN <<"c">> ELSE ChannelBlock(n - 1, sep) \o sep \o <<"c">>

ChannelSources ==
    {<<"x", ":", "b", "=", "7", "5", "0", "0", ":">> \o ChannelBlock(n, sep)
       \o (IF second THEN <<";">> \o ChannelBlock(n, sep) ELSE <<>>) \o tail :
        n \in {1, 2, PTTTL_MAX_CHANNELS_PER_FILE - 1, PTTTL_MAX_CHANNELS_PER_FILE,
               PTTTL_MAX_CHANNELS_PER_FILE + 1, PTTTL_MAX_CHANNELS_PER_FILE + 2},
        sep \in {<<"|">>, <<"|", "\n">>},
        second \in BOOLEAN, tail \in {<<"\n">>, <<";">>}}

\* One short note of every pitch in every octave: the 88 piano keys among them
KeySources ==
    {NoteHeader(7500, 32, o) \o <<l>> \o acc \o <<"\n">> :
        l \in {"c", "d", "e", "f", "g", "a", "b"},
        acc \in {<<>>, <<"#">>},
        o \in 0..NOTE_OCTAVE_MAX}

\* Song names
InitNames == InitWith(Reading(NameSources))
SpecNames == InitNames /\ [][Next]_vars

\* "x:b=240:c, d|e;f|g\n" and "x : o=8 :\nc8"
FailSources ==
    {<<"x", ":", "b", "=", "2", "4", "0", ":", "c", ",", " ", "d", "|", "e", ";",
       "f", "|", "g", "\n">>,
     <<"x", " ", ":", " ", "o", "=", "8", " ", ":", "\n", "c", "8">>}

\* Parsers of the sources whose read callback, or whose seek callback, fails
\* at one offset
Failing(sources) ==
    UNION {{NewParser(src, f, NoFail) : f \in 0..Len(src)}
           \cup {NewParser(src, NoFail, f) : f \in 0..Len(src)} : src \in sources}

\* ptttl_parse_next for a channel the source does not have
ParseNextInvalid ==
    /\ phase = "ready"
    /\ parser' = ptttl_parse_next(Called(parser), parser.channel_count, ZeroNote).p
    /\ UNCHANGED <<phase, notes, last, generator, samples, wav>>

InitFail == InitWith(Failing(FailSources))

NextFail ==
    \/ ParseInit
    \/ \E c \in Chans : ParseNext(c)
    \/ ParseNextInvalid

\* Callbacks that fail, and calls for a channel that does not exist
SpecFail == InitFail /\ [][NextFail]_vars

\* Songs of a few milliseconds: two channels with a rest, a dotted note and
\* a note with vibrato; one, and three, channels; a rest first; a note that
\* does not parse; no notes at all; a channel that ends before the other;
\* a single rest; a note that the input ends after
GenSources ==
    {<<"x", ":", "b", "=", "7", "5", "0", "0", ",", "d", "=", "8", ",",
       "o", "=", "4", ":", "c", ",", "1", "6", "p", ",", "e", ".", "|",
       "4", "g", "v", "9", "-", "5", ",", "a", "3", ";", "d", "|", "e",
       ";">>,
     <<"x", ":", "b", "=", "7", "5", "0", "0", ",", "d", "=", "1", "6",
       ":", "c", ",", "d", ",", "e", "\n">>,
     <<"x", ":", "b", "=", "7", "5", "0", "0", ",", "d", "=", "8", ":",
       "c", "|", "e", "|", "g", ";">>,
     <<"x", ":", "b", "=", "7", "5", "0", "0", ",", "d", "=", "3", "2",
       ":", "p", ",", "c", ";">>,
     <<"x", ":", "b", "=", "7", "5", "0", "0", ",", "d", "=", "8", ":",
       "c", ",", "h", ";">>,
     <<"x", ":", "b", "=", "7", "5", "0", "0", ":">>,
     <<"x", ":", "b", "=", "7", "5", "0", "0", ",", "d", "=", "1", "6",
       ":", "c", ",", "d", "|", "e", ";">>,
     <<"x", ":", "b", "=", "7", "5", "0", "0", ",", "d", "=", "1", "6",
       ":", "P", ".", ";">>,
     <<"x", ":", "b", "=", "7", "5", "0", "0", ":", "c">>}

\* Largest number of samples asked of one ptttl_sample_generator_generate call
MaxChunk == 3

\* The configurations given to ptttl_sample_generator_create; the amplitudes
\* 1.5 and -0.5 are refused
GenConfigs ==
    {[sample_rate |-> r, attack_samples |-> ad[1], decay_samples |-> ad[2],
      amplitude |-> F32Literal(a, 10)] :
        r \in {1000, 2000}, ad \in {<<0, 0>>, <<1, 2>>, <<5, 3>>}, a \in {8, 15, 0 - 5}}

Create(config) ==
    /\ phase = "ready"
    /\ \E r \in {ptttl_sample_generator_create(parser, generator, config)} :
       /\ parser' = r.p
       /\ generator' = r.generator
       /\ phase' = IF r.ret = 0 THEN "playing"
                   ELSE IF r.ret < 0 THEN "failed" ELSE "ended"
    /\ UNCHANGED <<notes, last, samples, wav>>

Generate(num_samples) ==
    /\ phase = "playing"
    /\ \E r \in {ptttl_sample_generator_generate(parser, generator, num_samples)} :
       /\ parser' = r.p
       /\ generator' = r.generator
       /\ samples' = samples \o r.samples
       /\ phase' = IF r.ret = 0 THEN "playing"
                   ELSE IF r.ret = 1 THEN "done" ELSE "failed"
    /\ UNCHANGED <<notes, last, wav>>

InitGen == InitWith(Reading(GenSources))

NextGen ==
    \/ ParseInit
    \/ \E config \in GenConfigs : Create(config)
    \/ \E num_samples \in 1..MaxChunk : Generate(num_samples)

\* Songs turned into samples, a few at a time
SpecGen == InitGen /\ [][NextGen]_vars

\* One note of about half a second, "x:b=325:2c.\n", a rest as long,
\* "x:b=325:2P.\n", and one note of a few milliseconds, "x:b=7500:c\n"
ToneSources ==
    {<<"x", ":", "b", "=", "3", "2", "5", ":", "2", "c", ".", "\n">>,
     <<"x", ":", "b", "=", "3", "2", "5", ":", "2", "P", ".", "\n">>,
     <<"x", ":", "b", "=", "7", "5", "0", "0", ":", "c", "\n">>}

\* Number of samples asked of each ptttl_sample_generator_generate call
ToneChunk == 8

ToneConfigs ==
    {[sample_rate |-> r, attack_samples |-> 0, decay_samples |-> 0,
      amplitude |-> F32Literal(8, 10)] : r \in {1000, 16783}}

\* A call of the pass that counts the frames of the song: the samples go to
\* the one buffer every call of the pass is given, over the ones of the call
\* before, and the count is read from current_sample afterwards
GeneratePass(num_samples) ==
    /\ phase = "playing"
    /\ \E r \in {ptttl_sample_generator_generate(parser, generator, num_samples)} :
       /\ parser' = r.p
       /\ generator' = r.generator
       /\ samples' = r.samples \o SubSeq(samples, Len(r.samples) + 1, Len(samples))
       /\ phase' = IF r.ret = 0 THEN "playing"
                   ELSE IF r.ret = 1 THEN "done" ELSE "failed"
    /\ UNCHANGED <<notes, last, wav>>

InitTone == InitWith(Reading(ToneSources))

NextTone ==
    \/ ParseInit
    \/ \E config \in ToneConfigs : Create(config)
    \/ GeneratePass(ToneChunk)

\* One note turned into samples, ToneChunk at a time, to count them
SpecTone == InitTone /\ [][NextTone]_vars

\* One note of every key, turned into samples
InitKeys == InitWith(Reading(KeySources))

NextKeys ==
    \/ ParseInit
    \/ \E config \in ToneConfigs : Create(config)
    \/ GeneratePass(ToneChunk)

SpecKeys == InitKeys /\ [][NextKeys]_vars

\* Two notes of a few milliseconds, "x:b=7500:c<#><sep><\n><|>d<tail>": the
\* first one plain or sharp, a separator, the second one on the same line or
\* on the next, behind a '|' or not
AdvanceSources ==
    {<<"x", ":", "b", "=", "7", "5", "0", "0", ":", "c">> \o sharp \o <<sep>> \o nl
     \o bar \o <<"d">> \o tail :
        sharp \in {<<>>, <<"#">>}, sep \in Seps, nl \in {<<>>, <<"\n">>},
        bar \in {<<>>, <<"|">>}, tail \in Tails}

\* One configuration that ptttl_sample_generator_create accepts
AdvanceConfigs ==
    {[sample_rate |-> 1000, attack_samples |-> 0, decay_samples |-> 0,
      amplitude |-> F32Literal(8, 10)]}

InitAdvance == InitWith(Reading(AdvanceSources))

NextAdvance ==
    \/ ParseInit
    \/ \E c \in Chans : ParseNext(c)
    \/ \E config \in AdvanceConfigs : Create(config)
    \/ \E num_samples \in 1..MaxChunk : Generate(num_samples)

\* Two notes read one call at a time, channel by channel, or turned into
\* samples a few at a time
SpecAdvance == InitAdvance /\ [][NextAdvance]_vars

\* A note, what separates it from the next visible character, that character
\* and a second note: "x:b=900:<note><gap><character>e"
SeparatorNotes ==
    {<<"c">>, <<"4", "c">>, <<"c", "#">>, <<"c", ".">>, <<"c", "5">>, <<"p">>,
     <<"c", "v">>, <<"c", "v", "3">>, <<"c", "v", "3", "-", "2">>}
SeparatorGaps == {<<>>, <<" ">>, <<"\n">>, <<" ", "#", "k", "\n">>}

\* The characters that separate notes, and characters that do not; of these,
\* the ones that are no part of any note
NoSeparators == {"x", "d", "P", "4", ".", "v", "-", ":", "="}
NoNotePart == {"x", ":", "="}

SeparatorSource(spelling, gap, ch) ==
    <<"x", ":", "b", "=", "9", "0", "0", ":">> \o spelling \o gap \o <<ch, "e">>

SeparatorSources ==
    {SeparatorSource(spelling, gap, ch) :
        spelling \in SeparatorNotes, gap \in SeparatorGaps, ch \in Seps \cup NoSeparators}

InitSeparator == InitWith(Reading(SeparatorSources))
SpecSeparator == InitSeparator /\ [][Next]_vars

\* Numbers written with and without leading zeros
ZeroRuns ==
    {<<"8">>, <<"0", "8">>, <<"1", "0">>, <<"0", "1", "0">>, <<"4">>, <<"0", "4">>,
     <<"0", "0", "4">>, <<"1", "6">>, <<"0", "1", "6">>, <<"0">>, <<"0", "0">>}

\* The places of a number: the five settings, the duration of a note, and the
\* frequency and the variance of its vibrato
ZeroSettings == {"b", "d", "o", "f", "v"}
ZeroPlaces == ZeroSettings \cup {"duration", "freq", "var"}

\* One number and one note: "x:b=<run>:cv\n", "x:b=900,<key>=<run>:cv\n",
\* "x:b=900:<run>cv\n", "x:b=900:cv<run>-1\n", "x:b=900:cv1-<run>\n"
ZeroSource(place, run) ==
    CASE place = "b" -> <<"x", ":", "b", "=">> \o run \o <<":", "c", "v", "\n">>
      [] place \in ZeroSettings \ {"b"} ->
             <<"x", ":", "b", "=", "9", "0", "0", ",", place, "=">> \o run
             \o <<":", "c", "v", "\n">>
      [] place = "duration" ->
             <<"x", ":", "b", "=", "9", "0", "0", ":">> \o run \o <<"c", "v", "\n">>
      [] place = "freq" ->
             <<"x", ":", "b", "=", "9", "0", "0", ":", "c", "v">> \o run
             \o <<"-", "1", "\n">>
      [] place = "var" ->
             <<"x", ":", "b", "=", "9", "0", "0", ":", "c", "v", "1", "-">> \o run
             \o <<"\n">>

ZeroSources == {ZeroSource(place, run) : place \in ZeroPlaces, run \in ZeroRuns}

InitZeros == InitWith(Reading(ZeroSources))
SpecZeros == InitZeros /\ [][Next]_vars

\* active_stream of a parser object that nothing has been stored in, when it
\* points to no cursor of the object
WildPointer == 0 - 2

\* ptttl_parse_init with an interface whose read callback is NULL, for a
\* parser object that is new or in use. active_stream of a new object is any
\* value: the address of its stream, or one that cannot be read, and then the
\* call does not return.
ParseInitNull ==
    /\ phase \in {"new", "ready"}
    /\ \E a \in (IF phase = "new" THEN {StreamParser, WildPointer}
                 ELSE {parser.active_stream}) :
       IF a = WildPointer
       THEN parser' = parser /\ phase' = "crashed"
       ELSE \E r \in {ptttl_parse_init([Called(parser) EXCEPT !.active_stream = a], TRUE)} :
            /\ parser' = r.p
            /\ phase' = IF r.ret < 0 THEN "failed" ELSE "ready"
    /\ UNCHANGED <<notes, last, generator, samples, wav>>

NextNull ==
    \/ ParseInit
    \/ \E c \in Chans : ParseNext(c)
    \/ ParseInitNull

\* Callers that pass a NULL callback
SpecNull == Init /\ [][NextNull]_vars

\* Short texts, with and without line breaks, read one character at a time
CursorSources ==
    {<<>>, <<"a">>, <<"a", "b">>, <<"a", "\n", "b">>, <<"\n", "\n", "a">>,
     <<"a", "b", "\n">>, <<"\n", "a", "b", "\n">>, <<"a", "a", "b">>,
     <<"x", ":", "c">>, <<"a", "b", "c", "d">>}

\* Number of reads after the end of the text that are followed
MaxPastEnd == 2

\* The parser as ptttl_parse_init has it before its first read, the read
\* callback failing at one offset or at none
InitCursor ==
    InitWith({[NewParser(src, f, NoFail) EXCEPT !.stream.line = 1] :
                 src \in CursorSources, f \in {NoFail, 1}})

\* _peek_next_char and _read_next_char as the parser calls them, the
\* character variable of the caller holding NUL
PeekChar ==
    /\ phase = "new"
    /\ ActiveStream(parser).position < Len(parser.buf) + MaxPastEnd
    /\ parser' = _peek_next_char(parser, NUL).p
    /\ UNCHANGED <<phase, notes, last, generator, samples, wav>>

ReadChar ==
    /\ phase = "new"
    /\ ActiveStream(parser).position < Len(parser.buf) + MaxPastEnd
    /\ parser' = _read_next_char(parser, NUL).p
    /\ UNCHANGED <<phase, notes, last, generator, samples, wav>>

NextCursor == PeekChar \/ ReadChar

\* Texts read and peeked a character at a time
SpecCursor == InitCursor /\ [][NextCursor]_vars

\* A setting or a number that the source does not write
Unwritten == 0 - 1

OptionText(key, value) ==
    IF value = Unwritten THEN <<>> ELSE <<key, "=">> \o ToDigits(value)

\* What follows the pitch of a note: nothing, "v", "v<freq>" or
\* "v<freq>-<var>"
VibratoSuffix(sf) ==
    IF ~sf.v THEN <<>>
    ELSE IF sf.freq = Unwritten THEN <<"v">>
    ELSE IF sf.var = Unwritten THEN <<"v">> \o ToDigits(sf.freq)
    ELSE <<"v">> \o ToDigits(sf.freq) \o <<"-">> \o ToDigits(sf.var)

Suffixes ==
    {[v |-> FALSE, freq |-> Unwritten, var |-> Unwritten],
     [v |-> TRUE, freq |-> Unwritten, var |-> Unwritten]}
    \cup {[v |-> TRUE, freq |-> fr, var |-> va] :
             fr \in {0, 5, 65535}, va \in {Unwritten, 0, 6}}

\* "x:b=900[,f=<f>][,v=<v>]:c<suffix><tail>"
VibratoSource(f, v, sf, tail) ==
    <<"x", ":">>
    \o JoinOptions(<<<<"b", "=", "9", "0", "0">>, OptionText("f", f), OptionText("v", v)>>)
    \o <<":", "c">> \o VibratoSuffix(sf) \o tail

VibratoDefaults == {Unwritten, 3}
VibratoTails == {<<"\n">>, <<",", "d", "\n">>}

\* One note with and without vibrato, after settings with and without the
\* vibrato defaults
VibratoSources ==
    {VibratoSource(f, v, sf, tail) :
        f \in VibratoDefaults, v \in VibratoDefaults, sf \in Suffixes,
        tail \in VibratoTails}

InitVibrato == InitWith(Reading(VibratoSources))
SpecVibrato == InitVibrato /\ [][Next]_vars

\* ptttl_to_wav with PTTTL_WAVFILE_GENERATION_STRATEGY 0: one pass over the
\* song to count its frames, the header, and a second pass that writes the
\* samples. Every fwrite stores all it is given.
BITS_PER_SAMPLE == 16

\* Number of samples of the buffer of ptttl_to_wav (1024 in the source; the
\* songs here are a few samples long)
sample_buf_len == 4

\* x * 2^bits on an int32_t that wraps, for 0 <= x < 2^31
Int32Shl(x, bits) ==
    With([low \in {(x % (2^(31 - bits))) * (2^bits)} |->
    IF (x \div (2^(31 - bits))) % 2 = 1 THEN (low - 2^30) - 2^30 ELSE low])

\* a + b on an int32_t that wraps, for b >= 0
Int32Add(a, b) ==
    IF a > 2147483647 - b THEN (((a - 2^30) - 2^30) + b - 2^30) - 2^30 ELSE a + b

\* a / b of C, which rounds towards 0, for b > 0
Int32Div(a, b) == IF a >= 0 THEN a \div b ELSE (a + (b - 1)) \div b

\* The numbers of the header; its four tags are constant text. The product
\* framecount * BITS_PER_SAMPLE is a signed one, whose overflow is undefined:
\* the build either wraps it before the division (folded FALSE) or makes
\* framecount * 2 of the two operations and wraps that (folded TRUE).
\* The product of byte_rate is an unsigned one.
_prepare_header(framecount, samplerate, folded) ==
    With([subchunk2_size \in {IF folded THEN Int32Shl(framecount, 1)
                              ELSE Int32Div(Int32Shl(framecount, 4), 8)} |->
    [chunk_size |-> Int32Add(8 + subchunk2_size, 4 + (8 + BITS_PER_SAMPLE)),
     subchunk1_size |-> BITS_PER_SAMPLE,
     subchunk2_size |-> subchunk2_size,
     audio_format |-> 1,
     num_channels |-> 1,
     sample_rate |-> samplerate,
     byte_rate |-> (samplerate % 2^28) * (BITS_PER_SAMPLE \div 8),
     block_align |-> BITS_PER_SAMPLE \div 8,
     bits_per_sample |-> BITS_PER_SAMPLE]])

\* The waveform of every channel is the sine that create has set
_init_sample_generation(gen, config, p, reinit_parser) ==
    With([i \in {IF reinit_parser THEN ptttl_parse_init(p, FALSE)
                 ELSE [ret |-> 0, p |-> p]} |->
    IF i.ret # 0 THEN [ret |-> i.ret, p |-> i.p, generator |-> gen]
    ELSE
    With([c \in {ptttl_sample_generator_create(i.p, gen, config)} |->
    IF c.ret < 0 THEN c ELSE [c EXCEPT !.ret = 0]])])

\* The generator of ptttl_to_wav is a local object that nothing has been
\* stored in: what its note streams hold before create is any value
StackStreams ==
    {ZeroNoteStream,
     [ZeroNoteStream EXCEPT !.num_samples = 2],
     [ZeroNoteStream EXCEPT !.num_samples = 1, !.sine_index = 5, !.note_number = 40,
                            !.pitch_hz = F32FromInt(262), !.wgen = "sine"]}

StackGenerators ==
    {[ZeroGenerator EXCEPT !.note_streams = [k \in DOMAIN @ |-> stream]] :
        stream \in StackStreams}

\* The beginning of ptttl_to_wav, up to the first pass
WavStart(config) ==
    /\ phase = "ready"
    /\ \E stack \in StackGenerators :
       \E r \in {_init_sample_generation(stack, config, parser, FALSE)} :
       /\ parser' = r.p
       /\ generator' = r.generator
       /\ phase' = IF r.ret < 0 THEN "failed" ELSE "counting"
    /\ wav' = [wav EXCEPT !.num_samples = sample_buf_len]
    /\ UNCHANGED <<notes, last, samples>>

\* One call of the first pass: num_samples is not set again between the calls
WavCount ==
    /\ phase = "counting"
    /\ \E r \in {ptttl_sample_generator_generate(parser, generator, wav.num_samples)} :
       /\ parser' = r.p
       /\ generator' = r.generator
       /\ samples' = r.samples \o SubSeq(samples, Len(r.samples) + 1, Len(samples))
       /\ wav' = [wav EXCEPT !.num_samples = Len(r.samples)]
       /\ phase' = IF r.ret = 0 THEN "counting"
                   ELSE IF r.ret < 0 THEN "failed" ELSE "counted"
    /\ UNCHANGED <<notes, last>>

\* The header is written, and the parser and the generator are set up again
WavHeader ==
    /\ phase = "counted"
    /\ \E r \in {_init_sample_generation(generator, generator.config, parser, TRUE)} :
       /\ parser' = r.p
       /\ generator' = r.generator
       /\ phase' = IF r.ret < 0 THEN "failed" ELSE "writing"
    /\ \E folded \in BOOLEAN :
       wav' = [wav EXCEPT !.framecount = generator.current_sample,
                          !.header = <<_prepare_header(generator.current_sample,
                                                       generator.config.sample_rate,
                                                       folded)>>]
    /\ samples' = <<>>
    /\ UNCHANGED <<notes, last>>

\* One call of the second pass and what follows it in the loop; samples are
\* all the samples that the calls of this pass have produced, and wav.data
\* the samples after the header
WavWrite ==
    /\ phase = "writing"
    /\ \E r \in {ptttl_sample_generator_generate(parser, generator, wav.num_samples)} :
       /\ parser' = r.p
       /\ generator' = r.generator
       /\ samples' = samples \o r.samples
       /\ wav' = IF r.ret = 0
                 THEN [wav EXCEPT !.data = @ \o r.samples, !.num_samples = sample_buf_len]
                 ELSE [wav EXCEPT !.num_samples = Len(r.samples)]
       /\ phase' = IF r.ret = 0 THEN "writing"
                   ELSE IF r.ret = 1 THEN "written" ELSE "failed"
    /\ UNCHANGED <<notes, last>>

InitWav == InitWith(Reading(GenSources))

NextWav ==
    \/ ParseInit
    \/ \E config \in GenConfigs : WavStart(config)
    \/ WavCount
    \/ WavHeader
    \/ WavWrite

\* Songs written to a WAV file
SpecWav == InitWav /\ [][NextWav]_vars

\* One rest, "x:b=240:<duration>p\n": 1000 ms for the duration 1
RestSources ==
    {<<"x", ":", "b", "=", "2", "4", "0", ":">> \o ToDigits(d) \o <<"p", "\n">> :
        d \in {1, 2, 4, 8, 16, 32}}

\* Sample rates that give a rest of 1000 ms about 2^10, 2^27, 2^28, 2^29 and
\* 2^30 frames
RestRates ==
    {1000, 8000, 44100, 134217000, 134218000, 268435000, 268436000, 536871000,
     1073740000, 1073742000}

RestConfigs ==
    {[sample_rate |-> r, attack_samples |-> 0, decay_samples |-> 0,
      amplitude |-> F32Literal(8, 10)] : r \in RestRates}

\* ptttl_to_wav at the end of its first pass over a song of one rest. Every
\* tick of a rest leaves the note stream as it is and adds 1 to
\* current_sample; the tick after num_samples ticks asks for the next note,
\* and the channel has finished.
CountedRest(src, config, stack) ==
    With([i \in {ptttl_parse_init(NewParser(src, NoFail, NoFail), FALSE)} |->
    With([c \in {_init_sample_generation(stack, config, i.p, FALSE)} |->
    With([n \in {ptttl_parse_next(c.p, 0, ZeroNote)} |->
    With([frames \in {c.generator.note_streams[0].num_samples + 1} |->
    [parser |-> n.p,
     generator |-> [c.generator EXCEPT !.current_sample = frames,
                                       !.channel_finished[0] = 1],
     samples |-> [j \in 1..(IF frames < sample_buf_len THEN frames
                            ELSE sample_buf_len) |-> 0],
     wav |-> [NoWav EXCEPT !.num_samples = frames % sample_buf_len]]])])])])

InitHeader ==
    /\ phase = "counted"
    /\ notes = [k \in Chans |-> <<>>]
    /\ last = [k \in Chans |-> NoCall]
    /\ \E src \in RestSources, config \in RestConfigs :
       \E st \in {CountedRest(src, config, ZeroGenerator)} :
       /\ parser = st.parser
       /\ generator = st.generator
       /\ samples = st.samples
       /\ wav = st.wav

NextHeader == WavHeader

\* The header of long rests
SpecHeader == InitHeader /\ [][NextHeader]_vars

\* Songs of many channels, read by a caller that takes a note from each
\* channel in turn, as the sample generator does
Calls(k) == Len(notes[k]) + (IF last[k] \in {0, NoCall} THEN 0 ELSE 1)

ParseNextInTurn(c) ==
    /\ \A k \in Chans : k < parser.channel_count =>
           Calls(k) >= Calls(c) + (IF k < c THEN 1 ELSE 0)
    /\ ParseNext(c)

InitChannels == InitWith(Reading(ChannelSources))

NextChannels ==
    \/ ParseInit
    \/ \E c \in Chans : ParseNextInTurn(c)

SpecChannels == InitChannels /\ [][NextChannels]_vars


----------------------------------------------------------------------------
(* What a source text says, read off the text itself *)

RECURSIVE SplitOn(_, _)
\* the pieces of text between the occurrences of sep
SplitOn(text, sep) ==
    IF \A i \in 1..Len(text) : text[i] # sep THEN <<text>>
    ELSE With([i \in {CHOOSE i \in 1..Len(text) :
                      text[i] = sep /\ \A j \in 1..(i - 1) : text[j] # sep} |->
         <<SubSeq(text, 1, i - 1)>> \o SplitOn(SubSeq(text, i + 1, Len(text)), sep)])

Visible(text) == SelectSeq(text, LAMBDA c : ~IS_WHITESPACE(c))

\* the offset of the first character after the settings section
BodyStart(buf) ==
    With([colons \in {{i \in 1..Len(buf) : buf[i] = ":"}} |->
    With([first \in {CHOOSE i \in colons : \A j \in colons : i <= j} |->
    CHOOSE i \in colons \ {first} : \A j \in colons \ {first} : i <= j])])

\* the blocks of the source: the pieces between ';', without an empty last one
Blocks(buf) ==
    With([pieces \in {SplitOn(Visible(SubSeq(buf, BodyStart(buf) + 1, Len(buf))), ";")} |->
    IF pieces[Len(pieces)] = <<>> THEN SubSeq(pieces, 1, Len(pieces) - 1)
       ELSE pieces])

Segments(block) == SplitOn(block, "|")

\* semitones above C of a pitch letter
RefPitch(l) ==
    CASE l = "c" -> 0 [] l = "d" -> 2 [] l = "e" -> 4 [] l = "f" -> 5
      [] l = "g" -> 7 [] l = "a" -> 9 [] l = "b" -> 11

\* the piano key of a note written as a letter, or a letter and '#', in
\* octave 4 (C4 is key 40)
RefKey(item) == 40 + RefPitch(item[1]) + (IF Len(item) > 1 THEN 1 ELSE 0)

RECURSIVE ExpectedFrom(_, _, _)
\* the keys of channel k's segments of the blocks from the i-th on
ExpectedFrom(blocks, i, k) ==
    IF i > Len(blocks) THEN <<>>
    ELSE With([items \in {SplitOn(Segments(blocks[i])[k + 1], ",")} |->
         [j \in 1..Len(items) |-> RefKey(items[j])] \o ExpectedFrom(blocks, i + 1, k)])

\* every block has as many channels as the first, and at least one
WellFormed(buf) ==
    With([blocks \in {Blocks(buf)} |->
    /\ Len(blocks) > 0
    /\ \A i \in 1..Len(blocks) :
           Len(Segments(blocks[i])) = Len(Segments(blocks[1]))])

\* the source ends with a ';' or a line break, and has no '#' in it
Plain(buf) ==
    /\ buf[Len(buf)] = ";" \/ IS_WHITESPACE(buf[Len(buf)])
    /\ \A i \in 1..Len(buf) : buf[i] # "#"

Keys(ns) == [i \in 1..Len(ns) |-> PTTTL_NOTE_VALUE(ns[i])]

IsPrefix(s, t) == Len(s) <= Len(t) /\ SubSeq(t, 1, Len(s)) = s

\* C1: whatever the order of the ptttl_parse_next calls, the notes returned
\* for channel k are the notes of the k-th segment of each block in turn: a
\* beginning of them while the channel is read, all of them once it reported 1.
C1_ChannelNotes ==
    (phase = "ready" /\ WellFormed(parser.buf) /\ Plain(parser.buf)) =>
        With([blocks \in {Blocks(parser.buf)} |->
        \A k \in 0..(Len(Segments(blocks[1])) - 1) :
            With([expected \in {ExpectedFrom(blocks, 1, k)} |->
            /\ IsPrefix(Keys(notes[k]), expected)
            /\ last[k] = 1 => Keys(notes[k]) = expected])])

\* every channel has been read until it reported 1
Drained ==
    /\ phase = "ready"
    /\ \A k \in Chans : k < parser.channel_count => last[k] = 1

\* a block after the first has more or fewer channels than channel_count
Mismatched(buf) ==
    With([blocks \in {Blocks(buf)} |->
    \E i \in 2..Len(blocks) : Len(Segments(blocks[i])) # parser.channel_count])

\* C2: a source with a block after the first whose number of channels differs
\* from channel_count is never read to its end without the error "all
\* blocks must have the same channel count" having been reported.
C2_MismatchedBlocks ==
    (Drained /\ Plain(parser.buf) /\ Mismatched(parser.buf)) =>
        parser.error.error_message = "Unexpected end of block (all blocks must have the same channel count)"

\* the offset of the character a cursor delivers next
CursorOffset(s) == IF s.have_saved_char = 1 THEN s.position - 1 ELSE s.position

\* the offset of the first note of the k-th segment of the first block
SegmentStart(buf, k) ==
    With([pipes \in {{i \in (BodyStart(buf) + 1)..Len(buf) : buf[i] = "|"}} |->
    With([before \in {IF k = 0 THEN BodyStart(buf)
                  ELSE CHOOSE i \in pipes :
                           Cardinality({j \in pipes : j <= i}) = k} |->
    CHOOSE i \in before..Len(buf) :
           /\ \A j \in (before + 1)..i : IS_WHITESPACE(buf[j])
           /\ i = Len(buf) \/ ~IS_WHITESPACE(buf[i + 1])])])

\* C3: when ptttl_parse_init has returned 0, channel_count is the number of
\* '|'-separated segments of the first block, and channels[k] is a cursor in
\* block 0 at the first note of segment k.
C3_ChannelDiscovery ==
    (phase = "ready" /\ \A k \in Chans : last[k] = NoCall) =>
        /\ parser.channel_count = Len(Segments(Blocks(parser.buf)[1]))
        /\ \A k \in Chans : k < parser.channel_count =>
               /\ parser.channels[k].block = 0
               /\ CursorOffset(parser.channels[k]) = SegmentStart(parser.buf, k)

\* every note returned so far, on any channel
Returned == UNION {{notes[k][i] : i \in 1..Len(notes[k])} : k \in Chans}

\* Size of the sample buffer of the tests: more than any song here has
SAMPLE_BUF_SIZE == 2500000

\* One ptttl_sample_generator_generate call for SAMPLE_BUF_SIZE samples, on
\* a new parser of the same source and a new generator of the same config
WholeSong ==
    With([i \in {ptttl_parse_init(NewParser(parser.buf, NoFail, NoFail), FALSE)} |->
    With([c \in {ptttl_sample_generator_create(i.p, ZeroGenerator, generator.config)} |->
    ptttl_sample_generator_generate(c.p, c.generator, SAMPLE_BUF_SIZE)])])

\* C4: when ptttl_sample_generator_generate, called again and again with any
\* numbers of samples, has returned 1, the samples it stored are, in number
\* and in value, the ones a single call asking for all of them stores.
C4_ChunkingTransparent ==
    phase = "done" =>
        /\ WholeSong.ret = 1
        /\ Len(samples) = Len(WholeSong.samples)
        /\ samples = WholeSong.samples

\* the song of two channels is done, in more samples than one call gives
C4_Witness ==
    /\ phase = "done"
    /\ parser.channel_count = 2
    /\ generator.config.attack_samples = 1
    /\ Len(samples) > MaxChunk
    /\ \E i \in 1..Len(samples) : samples[i] # 0


\* C5: every note returned by ptttl_parse_next has key number 0 (a rest) or a
\* piano key 1..88.
C5_KeyRange == \A n \in Returned : PTTTL_NOTE_VALUE(n) \in 0..88

\* the notes as written in the first channel of the first block
Items(buf) == SplitOn(Segments(Blocks(buf)[1])[1], ",")

IsDotted(item) == \E i \in 1..Len(item) : item[i] = "."

Undotted(item) == SelectSeq(item, LAMBDA c : c # ".")

\* (60000 / bpm) * 4 / duration, times 1.5 if dotted, truncated
ExpectedMs(bpm, duration, dotted) ==
    IF dotted THEN 360000 \div (bpm * duration) ELSE 240000 \div (bpm * duration)

\* C6: a note written without a duration of its own has the duration_ms
\* (60000 / bpm) * 4 / default duration, times 1.5 if it is dotted, truncated.
C6_DurationFormula ==
    \A i \in 1..Len(notes[0]) :
        PTTTL_NOTE_DURATION(notes[0][i]) =
            ExpectedMs(parser.bpm, parser.default_duration,
                       IsDotted(Items(parser.buf)[i]))

DotPairs ==
    {<<i, j>> \in (1..Len(notes[0])) \X (1..Len(notes[0])) :
        /\ ~IsDotted(Items(parser.buf)[i])
        /\ IsDotted(Items(parser.buf)[j])
        /\ Undotted(Items(parser.buf)[j]) = Items(parser.buf)[i]}

\* C8 as stated: the duration_ms of a dotted note is 1.5 times the duration_ms
\* of the same note without the dot.
C8_DottedExact ==
    \A <<i, j>> \in DotPairs :
        2 * PTTTL_NOTE_DURATION(notes[0][j]) = 3 * PTTTL_NOTE_DURATION(notes[0][i])

\* C8: the duration_ms of a dotted note is within a millisecond of 1.5 times
\* the duration_ms of the same note without the dot, the difference taken
\* modulo 65536 as the 16-bit duration field keeps it.
C8_DottedWithinOne ==
    \A <<i, j>> \in DotPairs :
        (2 * PTTTL_NOTE_DURATION(notes[0][j]) + 3 * 65536
             - 3 * PTTTL_NOTE_DURATION(notes[0][i])) % 65536
            \in {0, 1, 2, 65534, 65535}

\* an eighth note at 240 bpm and its dotted form: 125 ms and 187 ms
C8_Witness ==
    /\ parser.bpm = 240 /\ parser.default_duration = 8
    /\ DotPairs = {<<1, 2>>}
    /\ PTTTL_NOTE_DURATION(notes[0][1]) = 125
    /\ PTTTL_NOTE_DURATION(notes[0][2]) = 187

\* C9 as stated: once ptttl_parse_init has returned 0 there is at least one
\* channel and no more than PTTTL_MAX_CHANNELS_PER_FILE, bpm is above 0, the
\* default duration is a valid one and the default octave is at most 8.
C9_SettingsInvariant ==
    phase = "ready" =>
        /\ 1 <= parser.channel_count
        /\ parser.channel_count <= PTTTL_MAX_CHANNELS_PER_FILE
        /\ parser.bpm > 0
        /\ parser.default_duration \in {1, 2, 4, 8, 16, 32}
        /\ parser.default_octave <= NOTE_OCTAVE_MAX

\* C9: the same, but channel_count may be 0: ptttl_parse_init returns 0 for
\* a source without notes.
C9_SettingsInvariantFrom0 ==
    phase = "ready" =>
        /\ 0 <= parser.channel_count
        /\ parser.channel_count <= PTTTL_MAX_CHANNELS_PER_FILE
        /\ parser.bpm > 0
        /\ parser.default_duration \in {1, 2, 4, 8, 16, 32}
        /\ parser.default_octave <= NOTE_OCTAVE_MAX

\* settings given in the source, two channels found, both read to their end
C9_Witness ==
    /\ Drained
    /\ parser.channel_count = 2
    /\ parser.bpm = 900 /\ parser.default_duration = 32 /\ parser.default_octave = 8
    /\ Len(notes[0]) = 2 /\ Len(notes[1]) = 2

\* the error holds a message, and the line and the column (counted from 1)
\* of the active cursor
ErrorAtCursor ==
    /\ parser.error.error_message # NoError
    /\ parser.error.line = ActiveStream(parser).line
    /\ parser.error.column = IF ActiveStream(parser).column > 0
                             THEN ActiveStream(parser).column ELSE 1

\* C10: after a call that returned a negative value, that is a failed
\* ptttl_parse_init or a failed ptttl_parse_next for the channel that is still
\* the active one, error_message is not NULL and the error's line and column
\* are those of the active cursor.
C10_ErrorReported ==
    /\ phase = "failed" => ErrorAtCursor
    /\ \A c \in Chans :
           (phase = "ready" /\ parser.active_stream = c /\ last[c] < 0) =>
               ErrorAtCursor

\* C11: a call of ptttl_parse_init or ptttl_parse_next during which the read
\* or the seek callback returned a negative value has itself returned a
\* negative value: ptttl_parse_init has failed, or the ptttl_parse_next for
\* the channel that is the active one has returned less than 0.
C11_CallbackFailureFatal ==
    parser.iface_failed =>
        \/ phase = "failed"
        \/ /\ phase = "ready"
           /\ parser.active_stream \in Chans
           /\ last[parser.active_stream] < 0

\* the source ends with a note: its last character is a pitch letter
EndsWithNote(buf) == \E i \in 1..Len(Letters) : buf[Len(buf)] = Letters[i]

\* the last item of the last segment of the last block
LastItem(buf) ==
    With([blocks \in {Blocks(buf)} |->
    With([segments \in {Segments(blocks[Len(blocks)])} |->
    With([items \in {SplitOn(segments[Len(segments)], ",")} |->
    [channel |-> Len(segments) - 1, item |-> items[Len(items)]]])])])

\* C12: when the input ends immediately after a complete note, the channel
\* that note belongs to reports 1 only after ptttl_parse_next has returned
\* that note for it, with vibrato 0/0: the last note returned for the channel
\* is the last note of the source.
C12_LastNoteReturned ==
    (phase = "ready" /\ EndsWithNote(parser.buf)) =>
        With([final \in {LastItem(parser.buf)} |->
        (final.channel < parser.channel_count /\ last[final.channel] = 1) =>
            /\ notes[final.channel] # <<>>
            /\ With([note \in {notes[final.channel][Len(notes[final.channel])]} |->
               /\ PTTTL_NOTE_VALUE(note) = RefKey(final.item)
               /\ PTTTL_NOTE_VIBRATO_FREQ(note) = 0
               /\ PTTTL_NOTE_VIBRATO_VAR(note) = 0])])

\* the channels of the source that are marked finished
Finished(g) == {c \in Chans : c < parser.channel_count /\ g.channel_finished[c] = 1}

\* C13: in every call of ptttl_sample_generator_generate, a channel that is
\* marked finished stays finished and is skipped (its note stream and its
\* cursor are left alone); the call returns a negative value only with a
\* parser error, never because a channel ran out of notes; while a channel is
\* not finished the call stores at least one sample; and it returns 1 only
\* when every channel is marked finished.
C13_FinishedChannels ==
    [][phase = "playing" =>
        /\ \A c \in Finished(generator) :
               /\ generator'.channel_finished[c] = 1
               /\ generator'.note_streams[c] = generator.note_streams[c]
               /\ parser'.channels[c] = parser.channels[c]
        /\ phase' = "failed" => parser'.error.error_message # NoError
        /\ (phase' # "failed" /\ Finished(generator) # 0..(parser.channel_count - 1))
               => Len(samples') > Len(samples)
        /\ phase' = "done" => Finished(generator') = 0..(parser.channel_count - 1)
      ]_vars

\* one channel of two has finished and the other is still played
C13_Witness ==
    /\ phase = "playing"
    /\ parser.channel_count = 2
    /\ Finished(generator) = {1}
    /\ Len(samples) > 0
    /\ samples[Len(samples)] # 0

\* the first note of the source, and what the call after it returned
FirstNotes(buf) ==
    With([i \in {ptttl_parse_init(NewParser(buf, NoFail, NoFail), FALSE)} |->
    With([n \in {ptttl_parse_next(i.p, 0, ZeroNote)} |->
    [channel_count |-> i.p.channel_count, note |-> n.note,
     then |-> ptttl_parse_next(n.p, 0, ZeroNote).ret]])])

\* C14: when the song of a single-channel source with a single note that is
\* not a rest has been generated, the number of samples stored, which
\* current_sample holds, differs by at most 1 from
\* duration_ms * sample_rate / 1000 (the difference, times 1000, is at most
\* 1000).
C14_SampleCount ==
    phase = "done" =>
        With([f \in {FirstNotes(parser.buf)} |->
        (f.channel_count = 1 /\ f.then = 1 /\ PTTTL_NOTE_VALUE(f.note) # 0) =>
            With([d \in {1000 * generator.current_sample
                         - PTTTL_NOTE_DURATION(f.note) * generator.config.sample_rate} |->
            d <= 1000 /\ 0 - d <= 1000])])

\* the first character of the first note that is not part of its duration
FirstLetter(buf) ==
    With([body \in {Visible(SubSeq(buf, BodyStart(buf) + 1, Len(buf)))} |->
    With([letters \in {SelectSeq(body, LAMBDA c : ~IS_DIGIT(c))} |->
    IF letters = <<>> THEN NUL ELSE letters[1]])])

\* C15: a rest ('p' or 'P') is returned with key number 0; a channel whose
\* loaded note is a rest contributes exactly 0 to the sample of the tick; and
\* the song of a source that is a single rest is zeros for duration_ms worth
\* of ticks: their number, which current_sample holds, differs by at most 1
\* from duration_ms * sample_rate / 1000.
C15_Rest ==
    (phase \in {"playing", "done"} /\ FirstLetter(parser.buf) \in {"p", "P"}) =>
        With([f \in {FirstNotes(parser.buf)} |->
        /\ PTTTL_NOTE_VALUE(f.note) = 0
        /\ phase = "playing" =>
               \A c \in 0..(parser.channel_count - 1) :
                   (generator.channel_finished[c] = 0
                    /\ generator.note_streams[c].note_number = 0) =>
                       _generate_channel_sample(parser, generator, c).sample = F32Zero
        /\ (phase = "done" /\ f.channel_count = 1 /\ f.then = 1) =>
               /\ \A i \in 1..Len(samples) : samples[i] = 0
               /\ With([d \in {1000 * generator.current_sample
                               - PTTTL_NOTE_DURATION(f.note) * generator.config.sample_rate} |->
                  d <= 1000 /\ 0 - d <= 1000])])

RECURSIVE SumFrom(_, _)
\* the samples of the channels from chan on that are not finished, added in
\* channel order to sum
SumFrom(chan, sum) ==
    IF chan >= parser.channel_count THEN sum
    ELSE IF generator.channel_finished[chan] = 1 THEN SumFrom(chan + 1, sum)
    ELSE SumFrom(chan + 1,
                 F32Add(sum, _generate_channel_sample(parser, generator, chan).sample))

\* C16: the sample that a tick stores is the sum of the samples of the
\* channels that are not finished on that tick, divided by channel_count and
\* truncated to an integer, which fits 16 bits; finished channels add nothing.
C16_MixedSample ==
    [][(phase = "playing" /\ Len(samples') = Len(samples) + 1) =>
        /\ samples'[Len(samples')] =
               F32ToInt(F32Div(SumFrom(0, F32Zero), F32FromInt(parser.channel_count)))
        /\ samples'[Len(samples')] \in (0 - 32768)..32767
      ]_vars

\* a sample other than 0 has been stored for a channel after the other
\* channel had finished
C16_Witness ==
    /\ phase = "playing"
    /\ parser.channel_count = 2
    /\ Finished(generator) = {1}
    /\ generator.note_streams[0].sine_index >= 2
    /\ samples[Len(samples)] # 0

\* C17: after ptttl_sample_generator_create and after every note change,
\* the note stream of every channel has attack + decay <= num_samples.
C17_AttackDecayClamped ==
    phase \in {"playing", "done"} =>
        \A c \in 0..(parser.channel_count - 1) :
            generator.note_streams[c].attack + generator.note_streams[c].decay
                <= generator.note_streams[c].num_samples

\* C18: a ptttl_sample_generator_generate call asked for n samples returns 0
\* only after storing exactly n; when it returns 1 the number it stored, which
\* it writes back to *num_samples, is smaller than n; in both cases
\* current_sample has grown by the number stored.
C18_SamplesWrittenBack ==
    [][\A n \in 1..MaxChunk :
          Generate(n) =>
              /\ phase' = "playing" => Len(samples') = Len(samples) + n
              /\ phase' = "done" => Len(samples') < Len(samples) + n
              /\ phase' \in {"playing", "done"} =>
                     generator'.current_sample - generator.current_sample
                         = Len(samples') - Len(samples)
      ]_vars

\* a song of one channel has ended, and current_sample counts its samples
C18_Witness ==
    /\ phase = "done"
    /\ parser.channel_count = 1
    /\ Len(samples) >= 2
    /\ generator.current_sample = Len(samples)

\* C19: ptttl_sample_generator_create returns 0 or -1 and nothing else: 0 when
\* it has loaded a first note for every channel, and -1, with an error
\* message stored, in every other case, the one where a channel's first
\* ptttl_parse_next reports the end of the input included.
C19_CreateResult ==
    [][phase = "ready" =>
        /\ phase' \in {"playing", "failed"}
        /\ phase' = "playing" =>
               \A c \in 0..(parser.channel_count - 1) :
                   generator'.note_streams[c].wgen = "sine"
        /\ phase' = "failed" => parser'.error.error_message # NoError
      ]_vars

\* the amplitude of the config is outside [0, 1]
BadAmplitude(config) ==
    F32Less(F32FromInt(1), config.amplitude) \/ F32Less(config.amplitude, F32Zero)

\* the parser is as it was but for its error, and the generator is as it was
Untouched ==
    /\ [parser' EXCEPT !.error = parser.error] = parser
    /\ generator' = generator

\* C20: ptttl_sample_generator_create called with an amplitude outside [0, 1]
\* returns -1 with the amplitude error, calls no ptttl_parse_next (the parser
\* is as before but for the error) and leaves the generator as it was.
C20_BadAmplitude ==
    [][\A config \in GenConfigs :
          (Create(config) /\ BadAmplitude(config)) =>
              /\ phase' = "failed"
              /\ parser'.error.error_message
                     = "Sample generator amplitude must be between 0.0 - 1.0"
              /\ Untouched
      ]_vars

\* C20, for the parsers it holds for: with a parser that has at least one
\* channel the call returns -1 with the amplitude error; with a parser whose
\* channel_count is 0 it returns -1 with the channel count error; either way
\* no ptttl_parse_next is called and the generator is left as it was.
C20_BadAmplitudeWithChannels ==
    [][\A config \in GenConfigs :
          (Create(config) /\ BadAmplitude(config)) =>
              /\ phase' = "failed"
              /\ parser'.error.error_message
                     = IF parser.channel_count > 0
                       THEN "Sample generator amplitude must be between 0.0 - 1.0"
                       ELSE "PTTTL parser object has a channel count of 0"
              /\ Untouched
      ]_vars

\* a create for a song of three channels has been refused for its amplitude
C20_Witness ==
    /\ phase = "failed"
    /\ parser.channel_count = 3
    /\ parser.error.error_message = "Sample generator amplitude must be between 0.0 - 1.0"
    /\ generator = ZeroGenerator

----------------------------------------------------------------------------
(* The settings section as its text gives it *)

\* The position of the first ch in text, Len(text) + 1 when there is none
Find(text, ch) ==
    CHOOSE i \in 1..(Len(text) + 1) :
        /\ i = Len(text) + 1 \/ text[i] = ch
        /\ \A j \in 1..(i - 1) : text[j] # ch

\* The parts of text between the occurrences of ch
RECURSIVE Split(_, _)
Split(text, ch) ==
    With([i \in {Find(text, ch)} |->
    IF i > Len(text) THEN <<text>>
    ELSE <<SubSeq(text, 1, i - 1)>> \o Split(SubSeq(text, i + 1, Len(text)), ch)])

\* The options between the first two colons of a source: <<key, digits>>
GivenOptions(buf) ==
    With([section \in {Split(buf, ":")[2]} |->
    IF section = <<>> THEN <<>>
    ELSE With([texts \in {Split(section, ",")} |->
         [i \in 1..Len(texts) |-> <<texts[i][1], SubSeq(texts[i], 3, Len(texts[i]))>>]])])

\* The decimal number that digits spell, or 1000000 if it is greater
GivenValue(digits) ==
    With([sig \in {StripZeros(digits)} |->
    IF Len(sig) > 6 THEN 1000000 ELSE StrValue(sig, 10, 0)])

\* The range error that an option calls for, NoError if it is in range
RangeError(key, value) ==
    CASE key = "b" /\ value = 0 -> "BPM cannot be zero"
      [] key = "d" /\ value \notin {1, 2, 4, 8, 16, 32} ->
             "Invalid note duration (must be 1, 2, 4, 8, 16 or 32)"
      [] key = "o" /\ value > 8 -> "Invalid octave (must be 0 through 8)"
      [] key = "f" /\ value > 65535 -> "Vibrato frequency too high (maximum is 65,535)"
      [] key = "v" /\ value > 65535 -> "Vibrato variance too high (maximum is 65,535)"
      [] OTHER -> NoError

\* The range error of the first option that is out of range
RECURSIVE FirstRangeError(_)
FirstRangeError(opts) ==
    IF opts = <<>> THEN NoError
    ELSE With([e \in {RangeError(Head(opts)[1], GivenValue(Head(opts)[2]))} |->
         IF e # NoError THEN e ELSE FirstRangeError(Tail(opts))])

\* C21: when the settings section gives b=0, a d outside {1,2,4,8,16,32},
\* an o greater than 8, or an f or v greater than 65535, ptttl_parse_init
\* returns -1 with the error of that setting, and no channel has been
\* discovered.
C21_RangeErrors ==
    phase # "new" /\ FirstRangeError(GivenOptions(parser.buf)) # NoError =>
        /\ phase = "failed"
        /\ parser.error.error_message = FirstRangeError(GivenOptions(parser.buf))
        /\ parser.channel_count = 0
        /\ \A k \in Chans : parser.channels[k] = ZeroStream

----------------------------------------------------------------------------
(* The song name *)

\* The characters before the first colon of a source
BeforeColon(buf) == Split(buf, ":")[1]

\* text without the white space and the comment lines it begins with
RECURSIVE SkipLeading(_, _)
SkipLeading(text, in_comment) ==
    IF text = <<>> THEN text
    ELSE IF in_comment THEN SkipLeading(Tail(text), Head(text) # "\n")
    ELSE IF Head(text) = "#" THEN SkipLeading(Tail(text), TRUE)
    ELSE IF IS_WHITESPACE(Head(text)) THEN SkipLeading(Tail(text), FALSE)
    ELSE text

\* ptttl_parse_init has refused, or kept, the name given as expected
NameAs(expected) ==
    /\ Len(parser.name) < PTTTL_MAX_NAME_LEN
    /\ phase # "new" =>
         IF Len(expected) > PTTTL_MAX_NAME_LEN - 1
         THEN /\ phase = "failed"
              /\ parser.error.error_message = "Maximum song name length exceeded"
         ELSE parser.name = expected /\ parser.name_terminated

\* C22 as stated: the name is all the characters before the first ':',
\* refused when there are more than PTTTL_MAX_NAME_LEN - 1 of them; the name
\* buffer is written within its bounds.
C22_NameKept == NameAs(BeforeColon(parser.buf))

\* C22: the name is the characters before the first ':' that come after the
\* leading white space and comment lines; it is refused with the name-too-long
\* error when there are more than PTTTL_MAX_NAME_LEN - 1 of them, and kept
\* whole and terminated otherwise; the name buffer is written within its bounds.
C22_VisibleNameKept == NameAs(SkipLeading(BeforeColon(parser.buf), FALSE))

\* the longest name, after a space, has been kept, and a note has been read
C22_Witness ==
    /\ phase = "ready"
    /\ parser.buf[1] = " "
    /\ Len(parser.name) = PTTTL_MAX_NAME_LEN - 1
    /\ parser.name_terminated
    /\ Len(notes[0]) > 0

----------------------------------------------------------------------------
(* The channels of the first block *)

\* The number of channels that the first block of a source is written with
FirstBlockChannels(buf) == Len(Split(Split(Split(buf, ":")[3], ";")[1], "|"))

\* C23: ptttl_parse_init returns -1 with the channel-count error for a first
\* block of more than PTTTL_MAX_CHANNELS_PER_FILE channels, accepts one of
\* exactly that many, and never counts (so never stores) more channels than
\* the channels array holds.
C23_ChannelLimit ==
    /\ parser.channel_count <= PTTTL_MAX_CHANNELS_PER_FILE
    /\ phase # "new" =>
         IF FirstBlockChannels(parser.buf) > PTTTL_MAX_CHANNELS_PER_FILE
         THEN /\ phase = "failed"
              /\ parser.error.error_message = "Exceeded maximum channel count"
         ELSE /\ parser.channel_count = FirstBlockChannels(parser.buf)
              /\ phase # "failed"
              /\ \A k \in Chans : k < parser.channel_count /\ last[k] = NoCall =>
                         parser.buf[parser.channels[k].position
                                    - parser.channels[k].have_saved_char + 1] = "c"

\* a first block of exactly PTTTL_MAX_CHANNELS_PER_FILE channels has been
\* accepted, and its last channel has given its note
C23_Witness ==
    /\ phase = "ready"
    /\ parser.channel_count = PTTTL_MAX_CHANNELS_PER_FILE
    /\ Len(notes[PTTTL_MAX_CHANNELS_PER_FILE - 1]) > 0

----------------------------------------------------------------------------
(* Pitches of the piano keys *)

PianoKeys == 1..88

F32LessEq(a, b) == F32Less(a, b) \/ a = b

----------------------------------------------------------------------------
(* Default settings *)

\* The keys that the settings section of a source sets
GivenKeys(buf) == {GivenOptions(buf)[i][1] : i \in 1..Len(GivenOptions(buf))}

\* "x:b=900,d=8,o=4,f=7,v=10:cv\n" and "x:b=900:cv\n"
DefaultsWritten ==
    <<"x", ":", "b", "=", "9", "0", "0", ",", "d", "=", "8", ",", "o", "=", "4", ",",
      "f", "=", "7", ",", "v", "=", "1", "0", ":", "c", "v", "\n">>

DefaultsOmitted == <<"x", ":", "b", "=", "9", "0", "0", ":", "c", "v", "\n">>

\* Every d, o, f and v of the source is written with its default value
WritesDefaults(buf) ==
    \A i \in 1..Len(GivenOptions(buf)) :
        GivenOptions(buf)[i] \in {<<"b", <<"9", "0", "0">>>>, <<"d", <<"8">>>>,
                                 <<"o", <<"4">>>>, <<"f", <<"7">>>>, <<"v", <<"1", "0">>>>}

\* The first note of channel 0 of a source
FirstNoteOf(buf) ==
    ptttl_parse_next(ptttl_parse_init(NewParser(buf, NoFail, NoFail), FALSE).p,
                     0, ZeroNote).note

HasDefaults(p) ==
    /\ p.default_duration = 8
    /\ p.default_octave = 4
    /\ p.default_vibrato_freq = 7
    /\ p.default_vibrato_var = 10

\* C25: after ptttl_parse_init of a source that sets none of d, o, f and v the
\* parser has default duration 8, octave 4, vibrato frequency 7 and variance
\* 10; a source that leaves out any of these keys, the others written with
\* these values, gives the parser and the note that the source with
\* d=8,o=4,f=7,v=10 written out gives.
C25_Defaults ==
    phase = "ready" =>
        /\ GivenKeys(parser.buf) \cap {"d", "o", "f", "v"} = {} => HasDefaults(parser)
        /\ parser.buf \in DefaultSources /\ WritesDefaults(parser.buf) =>
             /\ HasDefaults(parser)
             /\ Len(notes[0]) > 0 => notes[0][1] = FirstNoteOf(DefaultsWritten)

\* the note of the source that sets only the tempo has been read
C25_Witness ==
    /\ phase = "ready"
    /\ parser.buf = DefaultsOmitted
    /\ Len(notes[0]) = 1
    /\ notes[0][1] = FirstNoteOf(DefaultsWritten)

----------------------------------------------------------------------------
(* Octave 0 *)

\* A note written in octave 0: by its octave digit under default octave 4, or
\* without a digit under default octave 0
OctaveZeroSource(l, acc, explicit) ==
    IF explicit THEN NoteHeader(240, 4, 4) \o <<l>> \o acc \o <<"0", "\n">>
    ELSE NoteHeader(240, 4, 0) \o <<l>> \o acc \o <<"\n">>

\* Semitones above C of a pitch letter with its accidental
Semitone(l, acc) ==
    (CASE l \in {"c", "C"} -> 0 [] l \in {"d", "D"} -> 2 [] l \in {"e", "E"} -> 4
       [] l \in {"f", "F"} -> 5 [] l \in {"g", "G"} -> 7 [] l \in {"a", "A"} -> 9
       [] l \in {"b", "B"} -> 11)
    + (IF acc = <<"#">> THEN 1 ELSE IF acc = <<"b">> THEN 0 - 1 ELSE 0)

\* The spellings that are no note names: Cb, Fb and B#
Misspelled(l, acc) ==
    \/ l \in {"c", "f"} /\ acc = <<"b">>
    \/ l = "b" /\ acc = <<"#">>

\* The piano key of a note that ptttl_parse_next returned
KeyOf(note) == note.note_settings % 128

\* C26: the first ptttl_parse_next of a note in octave 0 (by its digit or by
\* the default octave) returns key 1, 2 or 3 for A, A#/Bb or B, returns -1
\* with the octave-0 error for every other pitch, and returns a rest (key 0)
\* for a pause.
C26_OctaveZero ==
    [][\A explicit \in BOOLEAN :
         /\ \A l \in {"c", "d", "e", "f", "g", "a", "b", "A"},
               acc \in {<<>>, <<"#">>, <<"b">>} :
               /\ parser.buf = OctaveZeroSource(l, acc, explicit)
               /\ ~Misspelled(l, acc)
               /\ last[0] = NoCall /\ last'[0] # NoCall
               => IF Semitone(l, acc) \in {9, 10, 11}
                  THEN /\ last'[0] = 0
                       /\ KeyOf(notes'[0][1]) = Semitone(l, acc) - 8
                  ELSE /\ last'[0] = 0 - 1
                       /\ notes'[0] = <<>>
                       /\ parser'.error.error_message = "Invalid musical note for octave 0"
         /\ parser.buf = OctaveZeroSource("p", <<>>, explicit)
            /\ last[0] = NoCall /\ last'[0] # NoCall
            => last'[0] = 0 /\ KeyOf(notes'[0][1]) = 0]_vars

\* B flat, read under default octave 0, has been returned as key 2
C26_Witness ==
    /\ parser.buf = OctaveZeroSource("b", <<"b">>, FALSE)
    /\ last[0] = 0
    /\ Len(notes[0]) = 1
    /\ KeyOf(notes[0][1]) = 2

----------------------------------------------------------------------------
(* Unsigned integers as they are written *)

\* The decimal number that digits spell is above UINT_MAX
ExceedsUInt(digits) ==
    With([sig \in {StripZeros(digits)} |->
    Len(sig) > 10 \/ (Len(sig) = 10 /\ DigitsGreater(sig, UINT_MAX_digits))])

UIntErrors ==
    {"Integer is too long", "Expected a numerical digit", "Integer is too large"}

\* C27: ptttl_parse_init of a setting whose digit run does not fit the 32-byte
\* buffer fails with the integer-too-long error, of one without a digit with
\* the expected-digit error, of one whose value is above the unsigned int
\* range with the integer-too-large error, and of any other with none of
\* these three errors.
C27_UIntErrors ==
    \A key \in {"o", "f"}, digits \in UIntDigits :
        parser.buf = <<"x", ":", key, "=">> \o digits \o <<":", "c", "v", "\n">>
        /\ phase # "new"
        => IF Len(digits) > UIntBufSize - 1
           THEN phase = "failed" /\ parser.error.error_message = "Integer is too long"
           ELSE IF Len(digits) = 0
           THEN phase = "failed"
                /\ parser.error.error_message = "Expected a numerical digit"
           ELSE IF ExceedsUInt(digits)
           THEN phase = "failed" /\ parser.error.error_message = "Integer is too large"
           ELSE parser.error.error_message \notin UIntErrors

----------------------------------------------------------------------------
(* The block jump without its shortcuts *)

\* The jump that always scans from the channel's own cursor to the next ';'
\* and then skips channel_idx pipes
_jump_rescan(p, channel_idx, find_semicolon) ==
    With([target_block \in {ActiveStream(p).block + 1} |->
    With([fs \in {IF find_semicolon = 1 THEN _find_semicolon(p, NUL)
              ELSE [ret |-> 0, p |-> p, c |-> NUL]} |->
    With([e \in {_eat_all_nonvisible_chars(fs.p)} |->
    IF e.ret # 0 THEN [ret |-> e.ret, p |-> e.p]
    ELSE IF channel_idx = 0
    THEN [ret |-> 0,
          p |-> SetActive(e.p, [ActiveStream(e.p) EXCEPT !.block = target_block])]
    ELSE _jump_tail(e.p, fs.c, channel_idx, target_block)])])])

\* ptttl_parse_next with that jump in the place of _jump_to_next_block
ptttl_parse_next_rescan(p, channel_idx, note) ==
    IF channel_idx >= p.channel_count
    THEN [ret |-> 0 - 1, p |-> ERROR(p, "Invalid channel requested"), note |-> note]
    ELSE
    With([p1 \in {[p EXCEPT !.active_stream = channel_idx]} |->
    With([sw \in {_seek_wrapper(p1, ActiveStream(p1).position)} |->
    With([chk \in {CHECK_IFACE_RET_EOF(sw.p, sw.ret)} |->
    IF chk.returns THEN [ret |-> chk.ret, p |-> chk.p, note |-> note]
    ELSE
    With([pn \in {_parse_ptttl_note(sw.p, note)} |->
    IF pn.ret # 0 THEN [ret |-> pn.ret, p |-> pn.p, note |-> pn.output]
    ELSE
    With([g \in {_get_next_visible_char(pn.p, NUL)} |->
    IF g.ret = 1 THEN [ret |-> 0, p |-> ClearSaved(g.p), note |-> pn.output]
    ELSE IF g.ret # 0 THEN [ret |-> g.ret, p |-> g.p, note |-> pn.output]
    ELSE
    With([r \in {CASE g.c = "|" -> _jump_rescan(g.p, channel_idx, 1)
               [] g.c = ";" -> _jump_rescan(g.p, channel_idx, 0)
               [] g.c = "," -> _eat_all_nonvisible_chars(g.p)
               [] OTHER -> [ret |-> 0 - 1,
                     p |-> ERROR(g.p, "Expecting '|', ';', ',', or note vibrato settings")]} |->
    IF r.ret = 1 /\ g.c \in {"|", ";", ","}
    THEN [ret |-> 0, p |-> ClearSaved(r.p), note |-> pn.output]
    ELSE [ret |-> r.ret, p |-> r.p, note |-> pn.output]])])])])])])

\* The number of calls for one channel that the comparison follows
RescanCalls == 6

\* The notes and the last return value of n calls of ptttl_parse_next_rescan
\* for channel c, the caller having got acc so far
RECURSIVE RescanRun(_, _, _, _)
RescanRun(p, c, n, acc) ==
    IF n = 0 THEN acc
    ELSE With([r \in {ptttl_parse_next_rescan(Called(p), c, ZeroNote)} |->
         RescanRun(r.p, c, n - 1,
                   [notes |-> IF r.ret = 0 THEN Append(acc.notes, r.note) ELSE acc.notes,
                    last |-> r.ret])])

\* What n calls for channel c give after ptttl_parse_init of the source
RescanFrom(buf, c, n) ==
    RescanRun(ptttl_parse_init(NewParser(buf, NoFail, NoFail), FALSE).p, c, n,
              [notes |-> <<>>, last |-> NoCall])

\* C28: in every interleaving of the calls, the notes and the last return
\* value that a channel has got from ptttl_parse_next are those that some
\* number of calls gives with the jump that always rescans from the channel's
\* own cursor.
C28_ShortcutsEquivalent ==
    phase = "ready" =>
        \A c \in Chans : c < parser.channel_count =>
            \E n \in 0..RescanCalls :
                With([ref \in {RescanFrom(parser.buf, c, n)} |->
                ref.notes = notes[c] /\ ref.last = last[c]])

----------------------------------------------------------------------------
(* What ptttl_parse_next leaves alone *)

\* C29: a call ptttl_parse_next(parser, c, note) leaves the saved cursor of
\* every channel other than c as it was (position, line, column, block and
\* saved character), whatever it returns, and leaves bpm, the defaults,
\* channel_count and name as they were.
C29_OtherCursorsKept ==
    [][\A c \in Chans : ParseNext(c) =>
           /\ \A k \in Chans : k # c => parser'.channels[k] = parser.channels[k]
           /\ parser'.bpm = parser.bpm
           /\ parser'.default_duration = parser.default_duration
           /\ parser'.default_octave = parser.default_octave
           /\ parser'.default_vibrato_freq = parser.default_vibrato_freq
           /\ parser'.default_vibrato_var = parser.default_vibrato_var
           /\ parser'.channel_count = parser.channel_count
           /\ parser'.name = parser.name
           /\ parser'.name_terminated = parser.name_terminated]_vars

\* two channels have each returned a note and jumped to the second block
C29_Witness ==
    /\ phase = "ready"
    /\ Len(notes[0]) > 0 /\ Len(notes[1]) > 0
    /\ parser.channels[0].block = 1 /\ parser.channels[1].block = 1
    /\ parser.channels[0].position # parser.channels[1].position

----------------------------------------------------------------------------
(* The block index *)

\* The index in the source of the character that channel k reads next
CursorIndex(p, k) == p.channels[k].position - p.channels[k].have_saved_char + 1

\* The cursor of channel k is at the beginning of a note
AtNote(p, k) ==
    /\ CursorIndex(p, k) \in 1..Len(p.buf)
    /\ p.buf[CursorIndex(p, k)] \in Digits \cup UpperNoteChars \cup LowerNoteChars

\* The number of ';' before the character that channel k reads next
SemicolonsBefore(p, k) ==
    Cardinality({j \in 1..(CursorIndex(p, k) - 1) : p.buf[j] = ";"})

\* C30: a call of ptttl_parse_next leaves the block index of every channel as
\* it was or raises it by 1, and when it returns 0 with the channel's cursor at
\* a further note, the block index of the channel is the number of ';' that
\* precede the cursor in the source.
C30_BlockIndex ==
    [][\A c \in Chans : ParseNext(c) =>
           /\ \A k \in Chans :
                 parser'.channels[k].block \in
                     {parser.channels[k].block, parser.channels[k].block + 1}
           /\ last'[c] = 0 /\ AtNote(parser', c) =>
                 parser'.channels[c].block = SemicolonsBefore(parser', c)]_vars

----------------------------------------------------------------------------
(* The WAV file *)

\* The first pass over a rest ends as CountedRest says
CountedRestReached ==
    phase = "counted"
    /\ parser.buf = <<"x", ":", "b", "=", "7", "5", "0", "0", ",", "d", "=", "1", "6",
                      ":", "P", ".", ";">>
    => \E stack \in StackGenerators :
       \E st \in {CountedRest(parser.buf, generator.config, stack)} :
       /\ parser = st.parser
       /\ generator = st.generator
       /\ samples = st.samples
       /\ wav = st.wav

\* C31: the data size of the header that ptttl_to_wav has written is 2 bytes
\* times the current_sample of the generator at the end of the first pass,
\* and when ptttl_to_wav returns 0, the samples after the header are all the
\* samples that the calls of ptttl_sample_generator_generate of the second
\* pass produced, in their order, as many as that current_sample: the data
\* size is the number of bytes of the samples written.
C31_WavData ==
    /\ Len(wav.header) = 1 =>
        /\ wav.header[1].subchunk2_size % 2 = 0
        /\ wav.header[1].subchunk2_size \div 2 = wav.framecount
    /\ phase = "written" =>
        /\ Len(wav.header) = 1
        /\ wav.data = samples
        /\ Len(wav.data) = generator.current_sample
        /\ Len(wav.data) = wav.framecount

----------------------------------------------------------------------------
(* The vibrato of a note *)

\* The vibrato settings in force: the written ones, or 7 and 10
InForce(f, v) ==
    [lo |-> IF f = Unwritten THEN 7 ELSE f, hi |-> IF v = Unwritten THEN 10 ELSE v]

\* C32: the first note that ptttl_parse_next returns has vibrato frequency 0
\* and variance 0 when it is written without 'v'; written with 'v', it has for
\* each of the two the number the note writes, and the setting in force where
\* the note writes none.
C32_NoteVibrato ==
    \A f \in VibratoDefaults, v \in VibratoDefaults, sf \in Suffixes,
       tail \in VibratoTails :
        parser.buf = VibratoSource(f, v, sf, tail) /\ Len(notes[0]) > 0
        => notes[0][1].vibrato_settings =
              IF ~sf.v THEN [lo |-> 0, hi |-> 0]
              ELSE [lo |-> IF sf.freq = Unwritten THEN InForce(f, v).lo ELSE sf.freq,
                    hi |-> IF sf.var = Unwritten THEN InForce(f, v).hi ELSE sf.var]

----------------------------------------------------------------------------
(* Peeking and reading a character *)

\* C33: _peek_next_char leaves line and column of the active cursor as they
\* are; after a peek that returns a character, a read returns that character
\* and a second peek returns it too, and the read callback has been called
\* for it once in all; _read_next_char of a character adds 1 to the line and
\* sets the column to 0 when the character is a line break, and adds 1 to the
\* column otherwise.
C33_PeekRead ==
    [][/\ PeekChar =>
           \E pk \in {_peek_next_char(parser, NUL)} :
           /\ ActiveStream(parser').line = ActiveStream(parser).line
           /\ ActiveStream(parser').column = ActiveStream(parser).column
           /\ pk.ret = 0 =>
                 \E rd \in {_read_next_char(pk.p, NUL)},
                    pk2 \in {_peek_next_char(pk.p, NUL)} :
                 /\ rd.ret = 0 /\ rd.c = pk.c
                 /\ pk2.ret = 0 /\ pk2.c = pk.c
                 /\ pk.p.input_pos =
                       parser.input_pos + (1 - ActiveStream(parser).have_saved_char)
                 /\ rd.p.input_pos = pk.p.input_pos
                 /\ pk2.p.input_pos = pk.p.input_pos
                 /\ pk.c = parser.buf[pk.p.input_pos]
       /\ ReadChar =>
           \E rd \in {_read_next_char(parser, NUL)} :
           rd.ret = 0 =>
               /\ ActiveStream(parser').line =
                     ActiveStream(parser).line + (IF rd.c = "\n" THEN 1 ELSE 0)
               /\ ActiveStream(parser').column =
                     IF rd.c = "\n" THEN 0 ELSE ActiveStream(parser).column + 1]_vars

\* the character after a line break has been peeked
C33_Witness ==
    /\ phase = "new"
    /\ parser.buf = <<"a", "\n", "b">>
    /\ parser.stream.have_saved_char = 1
    /\ parser.stream.saved_char = "b"
    /\ parser.stream.line = 2
    /\ parser.stream.column = 0

----------------------------------------------------------------------------
(* A NULL callback *)

\* C34: ptttl_parse_init with a NULL read callback returns -1 and stores the
\* NULL-interface error with the line and the column of the stream cursor as
\* the call itself has set them, line 1 and column 0, which the error gives
\* as column 1.
C34_NullInterface ==
    [][ParseInitNull =>
           /\ phase' = "failed"
           /\ parser'.error = [error_message |-> "NULL interface pointer provided",
                               line |-> 1, column |-> 1]]_vars

----------------------------------------------------------------------------
(* Numbers with leading zeros *)

\* What ptttl_parse_init has stored for a setting
SettingOf(p, key) ==
    CASE key = "b" -> p.bpm
      [] key = "d" -> p.default_duration
      [] key = "o" -> p.default_octave
      [] key = "f" -> p.default_vibrato_freq
      [] key = "v" -> p.default_vibrato_var

\* C35: a number is taken with the base-10 value of its digits, with and
\* without leading zeros: a setting whose base-10 value is in range is stored
\* with that value by ptttl_parse_init, and a note whose duration, vibrato
\* frequency or vibrato variance has a valid base-10 value is returned as the
\* note that writes the value without leading zeros.
C35_DecimalValue ==
    \A place \in ZeroPlaces, run \in ZeroRuns :
        parser.buf = ZeroSource(place, run) =>
            IF place \in ZeroSettings
            THEN phase # "new" /\ RangeError(place, GivenValue(run)) = NoError
                 => phase = "ready" /\ SettingOf(parser, place) = GivenValue(run)
            ELSE last[0] # NoCall
                 /\ (place = "duration" => _valid_note_duration(GivenValue(run)) = 1)
                 => /\ Len(notes[0]) > 0
                    /\ notes[0][1] = FirstNoteOf(ZeroSource(place, ToDigits(GivenValue(run))))
                    /\ place = "freq" => PTTTL_NOTE_VIBRATO_FREQ(notes[0][1]) = GivenValue(run)
                    /\ place = "var" => PTTTL_NOTE_VIBRATO_VAR(notes[0][1]) = GivenValue(run)

----------------------------------------------------------------------------
(* Progress *)

\* C36: every ptttl_parse_next call that returns 0 leaves the saved position
\* of its channel strictly greater than before; this is what the claim rests
\* the end of the repeated ptttl_parse_next calls for a channel and of the
\* repeated ptttl_sample_generator_generate calls on.
C36_Progress ==
    [][\A c \in Chans : ParseNext(c) /\ last'[c] = 0 =>
          parser'.channels[c].position > parser.channels[c].position]_vars

----------------------------------------------------------------------------
(* The end of a channel *)

\* C37: once ptttl_parse_next has returned 1 for a channel, in every state
\* that the calls for the other channels lead to, the next call for the
\* channel returns 1 again, leaves the note of the caller as it was and
\* leaves the saved position of the channel where it was.
C37_EndIsFinal ==
    \A c \in Chans :
        phase = "ready" /\ c < parser.channel_count /\ last[c] = 1 =>
            \A r \in {ptttl_parse_next(Called(parser), c, ZeroNote)} :
                /\ r.ret = 1
                /\ r.note = ZeroNote
                /\ r.p.channels = parser.channels

\* channel 0 has returned 1, and the last call was one for channel 1 that
\* has returned a note
C37_Witness ==
    /\ phase = "ready"
    /\ last[0] = 1
    /\ last[1] = 0
    /\ Len(notes[1]) > 0
    /\ parser.active_stream = 1

----------------------------------------------------------------------------
(* The character after a note *)

\* The source is a note followed, at once or after whitespace and a comment,
\* by a character that is no separator and does not belong to the note
NoSeparatorAfterNote(buf) ==
    \E spelling \in SeparatorNotes, gap \in SeparatorGaps, ch \in NoSeparators :
        /\ buf = SeparatorSource(spelling, gap, ch)
        /\ gap = <<>> => ch \in NoNotePart

\* C38: when the first note of a source is followed by a visible character
\* other than ',', '|' and ';', the first ptttl_parse_next call returns -1
\* with the error "Expecting '|', ';', ',', or note vibrato settings" and
\* no note is returned as a success.
C38_SeparatorError ==
    [][ParseNext(0) /\ last[0] = NoCall /\ NoSeparatorAfterNote(parser.buf) =>
          /\ last'[0] = 0 - 1
          /\ notes' = notes
          /\ parser'.error.error_message
                 = "Expecting '|', ';', ',', or note vibrato settings"]_vars

\* "x:b=900:cv3", a line break, "4e": the call for the first note has ended
\* with the error
C38_Witness ==
    /\ parser.buf = SeparatorSource(<<"c", "v", "3">>, <<"\n">>, "4")
    /\ last[0] = 0 - 1
    /\ notes[0] = <<>>
    /\ parser.error.error_message = "Expecting '|', ';', ',', or note vibrato settings"
    /\ parser.error.line = 2

====
